---- MODULE Spec2Model ----
(***************************************************************************)
(* Match data collection pipeline of mac-tahmin-sistemi.                   *)
(*                                                                         *)
(* The repository holds two versions of the collector:                     *)
(*   "main" - the collector text carried in src/main.py (lines 1387-1807): *)
(*            api_request with a retry loop, get_odds over BOOKMAKERS,     *)
(*            fixtures without odds are persisted;                         *)
(*   "dc"   - src/data_collector.py: api_request with a single attempt,    *)
(*            get_odds over Bet365 only, fixtures without odds skipped.    *)
(* The variable version fixes which one a behaviour runs.                  *)
(*                                                                         *)
(* Provider payloads follow the provider's envelope (a dict with "errors"  *)
(* and a "response" list); inside it, items may miss keys, goals may be    *)
(* null and an odd may be non-numeric text, which are the malformations    *)
(* the code's own except clauses name.  Money amounts are integers in      *)
(* hundredths (1.50 is 150); Python None in a numeric place is None.       *)
(***************************************************************************)
EXTENDS Integers, Sequences, FiniteSets, TLC

\* ------------------------------------------------------------------ bounds
MaxRetryCount == 3      \* largest retry_count passed to api_request
MaxMatches == 2         \* longest team history drawn for the calculators
MaxLongHistory == 6     \* longest history drawn from the three sample matches
NumLeagues == 1         \* length of league_ids handed to collect_today_matches
MaxTime == 3            \* last second of the clock the rate limiter reads
MaxCalls == 2           \* most api_request calls of one collection run
MaxSendMatches == 2     \* predictions rows the dispatch stage chooses from
MaxAiMatches == 2       \* predictions rows the analysis stage chooses from
MaxDbRetries == 3       \* largest retry_count passed to get_db_cursor / execute_query
MaxCheckMatches == 2    \* predictions rows awaiting their result
MaxCheckRuns == 2       \* runs of check_and_update_results on one thread
MaxDsRetries == 3       \* largest max_retries passed to deepseek_predict

\* ------------------------------------------------------------ Python values
None == -1              \* Python None in a numeric field
NullText == "null"      \* a null (JSON, SQL) where a string is expected
BadOdd == -2            \* an "odd" text float() rejects with ValueError
NA == <<"N/A">>         \* the form sentinel "N/A"

Min(a, b) == IF a < b THEN a ELSE b
Max(a, b) == IF a > b THEN a ELSE b

\* Python truthiness of an optional number: None and 0.0 are falsy.
Truthy(x) == x # None /\ x # 0

\* ------------------------------------------------------------- api_request
\* One HTTP attempt as api_request sees it:
\*   "exception" - requests raised a RequestException (timeout, connection
\*                 error, raise_for_status on an HTTP error status);
\*   "errors"    - HTTP 200 whose body has a populated errors field;
\*   "ok"        - HTTP 200 with an empty errors field.
AttemptKinds == {"exception", "errors", "ok"}

\* What api_request hands back: None (ok = FALSE) or the body of the attempt
\* it accepted (from = the kind of that attempt).
NoData == [ok |-> FALSE, from |-> "none"]
Data(kind) == [ok |-> TRUE, from |-> kind]

\* The dict a caller reads: `if not data` and data.get("response", []).
Body(res, payload) == [ok |-> res.data.ok, response |-> payload]

\* range(retry_count): the loop body runs for attempt = 0 .. retry_count-1.
in_range(attempt, retry_count) == attempt < retry_count

\* (faulty variant of errors_retry: a body with errors is never retried)
errors_retry_never(attempt, retry_count) == FALSE
\* main.py 1433-1439: the errors branch; TRUE = sleep(2) and continue.
errors_retry(attempt, retry_count) == attempt < retry_count - 1

\* (faulty variant of except_retry: sleeps and continues after every failure)
except_retry_always(attempt, retry_count) == TRUE
\* main.py 1442-1447: the except branch; TRUE = sleep(2) and continue.
except_retry(attempt, retry_count) == attempt < retry_count - 1

\* main.py 1433: `if data.get("errors")` decides whether a body is refused.
has_errors(kind) == kind = "errors"

RECURSIVE api_attempt(_, _, _, _)
api_attempt(outcomes, retry_count, attempt, trace) ==
    IF ~in_range(attempt, retry_count)
    THEN [data |-> NoData, trace |-> trace]
    ELSE LET kind == outcomes[attempt + 1]
             t1 == Append(trace, "request")
         IN  IF kind = "exception"
             THEN IF except_retry(attempt, retry_count)
                  THEN api_attempt(outcomes, retry_count, attempt + 1,
                                   Append(t1, "sleep2"))
                  ELSE [data |-> NoData, trace |-> t1]
             ELSE IF has_errors(kind)
             THEN IF errors_retry(attempt, retry_count)
                  THEN api_attempt(outcomes, retry_count, attempt + 1,
                                   Append(t1, "sleep2"))
                  ELSE [data |-> NoData, trace |-> t1]
             ELSE [data |-> Data(kind), trace |-> t1]

\* main.py api_request(url, params, retry_count): the data it returns and
\* the requests and sleeps it made, in order.
api_request(outcomes, retry_count) == api_attempt(outcomes, retry_count, 0, <<>>)

\* data_collector.py api_request(url, params): one attempt, no loop.
dc_api_request(outcomes) ==
    LET kind == outcomes[1]
    IN  IF kind = "exception" THEN [data |-> NoData, trace |-> <<"request">>]
        ELSE IF has_errors(kind) THEN [data |-> NoData, trace |-> <<"request">>]
        ELSE [data |-> Data(kind), trace |-> <<"request">>]

DEFAULT_RETRY_COUNT == 2

\* The attempt budget of a call: retry_count in main.py, one in data_collector.py.
Budget(v, retry_count) == IF v = "main" THEN retry_count ELSE 1

ApiRequest(v, outcomes, retry_count) ==
    IF v = "main" THEN api_request(outcomes, retry_count)
    ELSE dc_api_request(outcomes)

Requests(trace) == Cardinality({i \in DOMAIN trace : trace[i] = "request"})
Sleeps(trace) == Cardinality({i \in DOMAIN trace : trace[i] = "sleep2"})

\* ------------------------------------------------- get_team_form / stats
\* A /fixtures item is a dict; a key the item lacks is absent from the
\* record's DOMAIN.  Goals are None for a match without a score.
Goals == {None, 0, 1, 2}
TeamIds == {1, 2}

Match(h, gh, ga) == [teams |-> [home |-> [id |-> h]],
                     goals |-> [home |-> gh, away |-> ga]]
NoGoalsMatch == [teams |-> [home |-> [id |-> 1]]]     \* item without "goals"
NoTeamsMatch == [fixture |-> 1]                       \* item without "teams"

Matches == {Match(h, gh, ga) : h \in TeamIds, gh \in Goals, ga \in Goals}
              \cup {NoGoalsMatch, NoTeamsMatch}

\* match["teams"], match["goals"] raise KeyError on a missing key.
HasKeys(match) == "teams" \in DOMAIN match /\ "goals" \in DOMAIN match

is_home(match, team_id) == match.teams.home.id = team_id
\* (faulty variant of goals_for: reads the other side's score)
goals_for_other_side(match, team_id) ==
    IF is_home(match, team_id) THEN match.goals.away ELSE match.goals.home
goals_for(match, team_id) ==
    IF is_home(match, team_id) THEN match.goals.home ELSE match.goals.away
goals_against(match, team_id) ==
    IF is_home(match, team_id) THEN match.goals.away ELSE match.goals.home

\* main.py 1462-1478: the letter one match adds to the form ("" when the
\* try block raises KeyError or TypeError and the match is skipped).
form_letter(match, team_id) ==
    IF ~HasKeys(match) THEN <<>>
    ELSE LET gf == goals_for(match, team_id)
             ga == goals_against(match, team_id)
         IN  IF gf = None \/ ga = None THEN <<>>      \* None > x: TypeError
             ELSE IF gf > ga THEN <<"W">>
             ELSE IF gf = ga THEN <<"D">>
             ELSE <<"L">>

RECURSIVE form_loop(_, _, _, _)
form_loop(response, team_id, i, form) ==
    IF i > Len(response) THEN form
    ELSE form_loop(response, team_id, i + 1,
                   form \o form_letter(response[i], team_id))

\* `form or "N/A"`
form_or_na(form) == IF form = <<>> THEN NA ELSE form

\* get_team_form(team_id) on the data api_request returned.
get_team_form(team_id, data) ==
    IF ~data.ok THEN NA
    ELSE form_or_na(form_loop(data.response, team_id, 1, <<>>))

\* round(total / count, 2) in hundredths: Python rounds the float to the
\* nearest hundredth, a tie (exact in binary for count 8) to the even one.
Round2(total, count) ==
    LET q == (100 * total) \div count
        r == (100 * total) % count
    IN  IF 2 * r < count THEN q
        ELSE IF 2 * r > count THEN q + 1
        ELSE IF q % 2 = 0 THEN q ELSE q + 1

\* main.py 1594-1606: one pass of the loop body over the running totals.
\* total_goals is updated before total_conceded, and a TypeError leaves
\* the loop body at the statement that raised it.
stats_step(acc, match, team_id) ==
    IF ~HasKeys(match) THEN acc
    ELSE LET gf == goals_for(match, team_id)
             ga == goals_against(match, team_id)
         IN  IF gf = None THEN acc
             ELSE IF ga = None
                  THEN [acc EXCEPT !.total_goals = @ + gf]
                  ELSE [total_goals |-> acc.total_goals + gf,
                        total_conceded |-> acc.total_conceded + ga,
                        match_count |-> acc.match_count + 1]

RECURSIVE stats_loop(_, _, _, _)
stats_loop(response, team_id, i, acc) ==
    IF i > Len(response) THEN acc
    ELSE stats_loop(response, team_id, i + 1,
                    stats_step(acc, response[i], team_id))

ZeroStats == [goals_avg |-> 0, conceded_avg |-> 0]

\* (faulty variant of stats_of: divides by max(match_count, 1) instead of
\* returning zeros when no match was counted)
stats_of_unguarded(acc) ==
    [goals_avg |-> Round2(acc.total_goals, Max(acc.match_count, 1)),
     conceded_avg |-> Round2(acc.total_conceded, Max(acc.match_count, 1))]
\* main.py 1608-1614: the averages of the totals.
stats_of(acc) ==
    IF acc.match_count = 0 THEN ZeroStats
    ELSE [goals_avg |-> Round2(acc.total_goals, acc.match_count),
          conceded_avg |-> Round2(acc.total_conceded, acc.match_count)]

\* calculate_team_stats(team_id, last_n) on the data api_request returned.
calculate_team_stats(team_id, data) ==
    IF ~data.ok THEN ZeroStats
    ELSE stats_of(stats_loop(data.response, team_id, 1,
                  [total_goals |-> 0, total_conceded |-> 0, match_count |-> 0]))

\* The number of matches of a history that are usable for team_id.
Usable(match) ==
    HasKeys(match) /\ match.goals.home # None /\ match.goals.away # None
UsableCount(response) ==
    Cardinality({i \in DOMAIN response : Usable(response[i])})

\* -------------------------------------------------------------- odds
\* Multiple bookmakers to try (in order of preference)
BOOKMAKERS == <<8, 11, 5, 6, 9, 12, 3>>

bookmaker_names(bookmaker_id) ==
    CASE bookmaker_id = 8 -> "Bet365"
      [] bookmaker_id = 11 -> "Betfair"
      [] bookmaker_id = 5 -> "William Hill"
      [] bookmaker_id = 6 -> "Bwin"
      [] bookmaker_id = 9 -> "188Bet"
      [] bookmaker_id = 12 -> "Unibet"
      [] bookmaker_id = 3 -> "Pinnacle"
      [] OTHER -> "Bookmaker"

NoSource == "NULL"      \* odds_source of a quote or row that names no source

PriceFields == {"home_odds", "draw_odds", "away_odds", "over_2_5_odds",
                "under_2_5_odds", "btts_yes_odds", "btts_no_odds"}
X12Fields == {"home_odds", "draw_odds", "away_odds"}

\* odds_data as get_odds builds it; found = FALSE stands for `return None`.
odds_data(bookmaker_id) ==
    [found |-> TRUE,
     home_odds |-> None, draw_odds |-> None, away_odds |-> None,
     over_2_5_odds |-> None, under_2_5_odds |-> None,
     btts_yes_odds |-> None, btts_no_odds |-> None,
     bookmaker_id |-> bookmaker_id, odds_source |-> NoSource]
NoOdds == [odds_data(None) EXCEPT !.found = FALSE]

\* The price bookmaker b quotes for market m, in hundredths; the hundreds
\* name the bookmaker, so a price tells which source it came from.
Price(b, m) == 100 * b + m
SourceOf(price) == price \div 100

\* `tok in value["value"]` and `value["value"] == tok` on a label, a label
\* being the sequence of its words ("Over 2.5" is <<"Over", "2.5">>).
Has(tok, label) == \E i \in DOMAIN label : label[i] = tok

\* "2.5" in the text of an odd such as "2.50" or "12.50".
OddTextHas25(odd) == odd >= 0 /\ ((odd \div 10) % 100 = 25)

\* data_collector.py 114: "2.5" in str(bet.get("values", []))
dc_str_has_25(bet) ==
    /\ "values" \in DOMAIN bet
    /\ \E i \in DOMAIN bet.values :
          Has("2.5", bet.values[i].value) \/ OddTextHas25(bet.values[i].odd)

\* The odds_data key one value of a bet is stored under ("none": no branch
\* of the if/elif chain takes it).
target_field(v, bet_name, label) ==
    IF bet_name = "Match Winner"
    THEN IF label = <<"Home">> THEN "home_odds"
         ELSE IF label = <<"Draw">> THEN "draw_odds"
         ELSE IF label = <<"Away">> THEN "away_odds" ELSE "none"
    ELSE IF bet_name = "Goals Over/Under"
    THEN IF v = "main" /\ ~Has("2.5", label) THEN "none"
         ELSE IF Has("Over", label) THEN "over_2_5_odds"
         ELSE IF Has("Under", label) THEN "under_2_5_odds" ELSE "none"
    ELSE IF bet_name = "Both Teams Score"
    THEN IF label = <<"Yes">> THEN "btts_yes_odds"
         ELSE IF label = <<"No">> THEN "btts_no_odds" ELSE "none"
    ELSE "none"

\* odds_data[key] = float(value["odd"]); float raises ValueError on BadOdd.
apply_value(v, bet_name, value, od) ==
    LET field == target_field(v, bet_name, value.value)
    IN  IF field = "none" THEN [exc |-> FALSE, od |-> od]
        ELSE IF value.odd = BadOdd THEN [exc |-> TRUE, od |-> od]
        ELSE [exc |-> FALSE, od |-> [od EXCEPT ![field] = value.odd]]

RECURSIVE values_loop(_, _, _, _, _)
values_loop(v, bet_name, values, i, st) ==
    IF st.exc \/ i > Len(values) THEN st
    ELSE values_loop(v, bet_name, values, i + 1,
                     apply_value(v, bet_name, values[i], st.od))

\* Whether the if/elif chain enters a branch that reads bet["values"].
reads_values(v, bet) ==
    \/ bet.name = "Match Winner"
    \/ bet.name = "Both Teams Score"
    \/ bet.name = "Goals Over/Under" /\ (v = "main" \/ dc_str_has_25(bet))

RECURSIVE bets_loop(_, _, _, _)
bets_loop(v, bets, i, st) ==
    IF st.exc \/ i > Len(bets) THEN st
    ELSE LET bet == bets[i]
         IN  IF ~reads_values(v, bet) THEN bets_loop(v, bets, i + 1, st)
             ELSE IF "values" \notin DOMAIN bet              \* KeyError
             THEN [exc |-> TRUE, od |-> st.od]
             ELSE bets_loop(v, bets, i + 1,
                            values_loop(v, bet.name, bet.values, 1, st))

\* (faulty variant of basic_odds: `or` in place of `and`)
basic_odds_any(od) ==
    Truthy(od.home_odds) \/ Truthy(od.draw_odds) \/ Truthy(od.away_odds)
\* main.py 1541-1545: "Check if we got at least basic odds".
basic_odds(od) ==
    Truthy(od.home_odds) /\ Truthy(od.draw_odds) /\ Truthy(od.away_odds)

\* main.py get_odds_from_bookmaker(fixture_id, bookmaker_id) on the data
\* api_request returned for that bookmaker.
get_odds_from_bookmaker(bookmaker_id, data) ==
    IF ~data.ok \/ data.response = <<>> THEN NoOdds
    ELSE IF data.response[1].bookmakers = <<>> THEN NoOdds
    ELSE LET st == bets_loop("main", data.response[1].bookmakers[1].bets, 1,
                             [exc |-> FALSE, od |-> odds_data(bookmaker_id)])
         IN  IF st.exc THEN NoOdds
             ELSE IF basic_odds(st.od) THEN st.od
             ELSE NoOdds

\* data_collector.py get_odds(fixture_id) on the data api_request returned
\* for bookmaker 8; odds_data has no bookmaker_id key there.
dc_get_odds(data) ==
    IF ~data.ok \/ data.response = <<>> THEN NoOdds
    ELSE IF data.response[1].bookmakers = <<>> THEN NoOdds     \* IndexError
    ELSE LET st == bets_loop("dc", data.response[1].bookmakers[1].bets, 1,
                             [exc |-> FALSE, od |-> odds_data(None)])
         IN  IF st.exc THEN NoOdds ELSE st.od

\* (faulty variant of tag: the name of the primary source, whoever answered)
tag_fixed(odds, bookmaker_id) == [odds EXCEPT !.odds_source = "Bet365"]
\* main.py 1570-1573: the accepted quote is tagged with the source's name.
tag(odds, bookmaker_id) ==
    [odds EXCEPT !.odds_source = bookmaker_names(bookmaker_id)]

\* ---- /odds payloads of bookmaker b
Val(label, odd) == [value |-> label, odd |-> odd]

MatchWinner(b) == [name |-> "Match Winner",
                   values |-> <<Val(<<"Home">>, Price(b, 1)),
                                Val(<<"Draw">>, Price(b, 2)),
                                Val(<<"Away">>, Price(b, 3))>>]
MatchWinnerNoDraw(b) == [name |-> "Match Winner",
                         values |-> <<Val(<<"Home">>, Price(b, 1)),
                                      Val(<<"Away">>, Price(b, 3))>>]
MatchWinnerZero(b) == [name |-> "Match Winner",
                       values |-> <<Val(<<"Home">>, 0),
                                    Val(<<"Draw">>, Price(b, 2)),
                                    Val(<<"Away">>, Price(b, 3))>>]
OverUnder(b) == [name |-> "Goals Over/Under",
                 values |-> <<Val(<<"Over", "1.5">>, Price(b, 8)),
                              Val(<<"Over", "2.5">>, Price(b, 4)),
                              Val(<<"Under", "2.5">>, Price(b, 5)),
                              Val(<<"Under", "3.5">>, Price(b, 9))>>]
BothTeamsScore(b) == [name |-> "Both Teams Score",
                      values |-> <<Val(<<"Yes">>, Price(b, 6)),
                                   Val(<<"No">>, Price(b, 7))>>]
BothTeamsScoreBadOdd(b) == [name |-> "Both Teams Score",
                            values |-> <<Val(<<"Yes">>, BadOdd),
                                         Val(<<"No">>, Price(b, 7))>>]
OverUnderNoValues == [name |-> "Goals Over/Under"]
Corners(b) == [name |-> "Corners 1x2",
               values |-> <<Val(<<"Home">>, Price(b, 10))>>]

Quote(b, bets) == <<[bookmakers |-> <<[id |-> b, bets |-> bets]>>]>>

BetLists(b) ==
    {<<MatchWinner(b), OverUnder(b), BothTeamsScore(b)>>,
     <<MatchWinner(b), Corners(b)>>,
     <<MatchWinnerNoDraw(b), OverUnder(b), BothTeamsScore(b)>>,
     <<MatchWinnerZero(b), BothTeamsScore(b)>>,
     <<MatchWinner(b), OverUnderNoValues>>,
     <<MatchWinner(b), BothTeamsScoreBadOdd(b)>>}

OddsPayloads(b) ==
    {<<>>, <<[bookmakers |-> <<>>]>>} \cup {Quote(b, bets) : bets \in BetLists(b)}

\* What the payload itself says, whatever the parser makes of it: the
\* Match Winner bet lists a numeric price for Home, Draw and Away.
PayloadHas1X2(payload) ==
    /\ payload # <<>>
    /\ payload[1].bookmakers # <<>>
    /\ \E i \in DOMAIN payload[1].bookmakers[1].bets :
          LET bet == payload[1].bookmakers[1].bets[i]
          IN  /\ bet.name = "Match Winner"
              /\ "values" \in DOMAIN bet
              /\ \A lab \in {<<"Home">>, <<"Draw">>, <<"Away">>} :
                    \E j \in DOMAIN bet.values :
                       bet.values[j].value = lab /\ bet.values[j].odd >= 0

\* ---------------------------------------------------------------- fixtures
\* A /fixtures item of a league; collect_match_data reads fixture.id,
\* league.name, fixture.date and both teams, and raises KeyError on an
\* item that lacks one of them.
Fixture(id) == [fixture |-> [id |-> id],
                league |-> [name |-> "L"],
                teams |-> [home |-> [id |-> 1], away |-> [id |-> 2]]]
BadFixture == [fixture |-> [id |-> 999]]              \* no "teams", no "league"

\* fixture_id = str(fixture["fixture"]["id"]): the text of the id.
str(id) == <<"id", id>>

FixtureOk(fixture) == "teams" \in DOMAIN fixture /\ "league" \in DOMAIN fixture

LeaguePayloads == {<<>>, <<BadFixture, Fixture(101), BadFixture>>}

\* Team histories the provider returns while a fixture is collected.
Histories == {<<>>, <<Match(1, 2, 1), Match(2, 1, 1)>>, <<Match(1, 2, None)>>}

\* The outcomes of the attempts one api_request call of the pipeline may
\* see: accepted at once, refused then accepted, refused until it gives up.
Attempts == {<<"ok", "ok">>, <<"errors", "ok">>, <<"exception", "errors">>}

\* ---------------------------------------------------------------- database
\* predictions and match_stats are sets of rows; match_id is UNIQUE in both.
\* A row keeps the columns collection writes; the fixture's own columns
\* (home_team, away_team, league, match_date) are fixed by match_id.
HasRow(rows, match_id) == \E r \in rows : r.match_id = match_id
RowOf(rows, match_id) == CHOOSE r \in rows : r.match_id = match_id

\* (faulty variant of insert_do_nothing: ON CONFLICT ... DO UPDATE)
insert_or_update(rows, row) ==
    {r \in rows : r.match_id # row.match_id} \cup {row}
\* INSERT ... ON CONFLICT (match_id) DO NOTHING
insert_do_nothing(rows, row) ==
    IF HasRow(rows, row.match_id) THEN rows ELSE rows \cup {row}

\* ai_prediction: the form / average-goals annotation of the row.
Annotation(no_odds, l) ==
    [no_odds |-> no_odds, home_form |-> l.home_form, away_form |-> l.away_form,
     home_avg |-> l.home_stats.goals_avg, away_avg |-> l.away_stats.goals_avg]

\* main.py 1651-1676: the row written when odds were found.
prediction_with_odds(l) ==
    [match_id |-> l.fixture_id, has_odds |-> TRUE,
     odds_source |-> l.odds.odds_source,
     home_odds |-> l.odds.home_odds, draw_odds |-> l.odds.draw_odds,
     away_odds |-> l.odds.away_odds,
     over_2_5_odds |-> l.odds.over_2_5_odds,
     under_2_5_odds |-> l.odds.under_2_5_odds,
     btts_yes_odds |-> l.odds.btts_yes_odds,
     btts_no_odds |-> l.odds.btts_no_odds,
     ai_prediction |-> Annotation(FALSE, l)]

\* (faulty variant of prediction_without_odds: has_odds left TRUE)
prediction_without_odds_flagged(l) ==
    [match_id |-> l.fixture_id, has_odds |-> TRUE, odds_source |-> NoSource,
     home_odds |-> None, draw_odds |-> None, away_odds |-> None,
     over_2_5_odds |-> None, under_2_5_odds |-> None,
     btts_yes_odds |-> None, btts_no_odds |-> None,
     ai_prediction |-> Annotation(TRUE, l)]
\* main.py 1680-1702: the row written when no odds were found.
prediction_without_odds(l) ==
    [match_id |-> l.fixture_id, has_odds |-> FALSE, odds_source |-> NoSource,
     home_odds |-> None, draw_odds |-> None, away_odds |-> None,
     over_2_5_odds |-> None, under_2_5_odds |-> None,
     btts_yes_odds |-> None, btts_no_odds |-> None,
     ai_prediction |-> Annotation(TRUE, l)]

\* data_collector.py 208-230: the row written there; has_odds and
\* odds_source are not in the column list and take the schema defaults.
dc_prediction(l) ==
    [prediction_with_odds(l) EXCEPT !.has_odds = FALSE,
                                    !.odds_source = NoSource]

\* (faulty variant of abandoned_transaction: each INSERT commits by itself)
autocommitted_insert(rows, row, outcome) ==
    IF outcome \in {"insert_stats_fails", "commit_fails"}
    THEN insert_do_nothing(rows, row) ELSE rows
\* main.py 1645-1726: the predictions table after a save that raised before
\* or in conn.commit(): the INSERT the transaction may have run is never
\* committed.
abandoned_transaction(rows, row, outcome) == rows

\* main.py 1706-1717: the match_stats row.
stats_row(l) ==
    [match_id |-> l.fixture_id, home_form |-> l.home_form,
     away_form |-> l.away_form,
     home_goals_avg |-> l.home_stats.goals_avg,
     away_goals_avg |-> l.away_stats.goals_avg]

\* What the database calls of one step may do: work, or fail at get_db
\* (which then returns None), at an execute, or at commit.
SaveOutcomes == {"ok", "no_conn", "insert_predictions_fails",
                 "insert_stats_fails", "commit_fails"}
CheckOutcomes == {"ok", "no_conn", "select_fails"}

\* ------------------------------------------------------------------- state
VARIABLES
    version,        \* "main" or "dc": which collector the behaviour runs
    pc,             \* where collect_today_matches / collect_match_data stands
    run,            \* locals of collect_today_matches
    loc,            \* locals of collect_match_data and get_odds
    predictions,    \* committed rows of table predictions
    match_stats,    \* committed rows of table match_stats
    apiCall,        \* one call of api_request and what it returned
    teamCall,       \* one call of get_team_form / calculate_team_stats
    sched,          \* the clock, LAST_REQUEST_TIME and the threads running
                    \* collect_today_matches
    pool,           \* the connection pool and the last operation that used it
    tg,             \* send_daily_predictions: its locals and the rows it marks
    ai,             \* analyze_and_update_predictions: its locals and the rows
                    \* it updates
    ds,             \* one call of deepseek_predict and what it returned
    cursorCall,     \* one `with get_db_cursor()` block and how it ended
    queryCall,      \* one call of execute_query and what it returned
    filterCall,     \* one row put before the filters of send_daily_predictions
    chk             \* the rows and runs of check_and_update_results

pipelineVars == <<version, pc, run, loc, predictions, match_stats, apiCall, teamCall>>
serviceVars == <<sched, pool, tg, ai, ds, cursorCall, queryCall, filterCall, chk>>
vars == <<pipelineVars, serviceVars>>

Versions == {"main", "dc"}

NoLoc == [fixture_id |-> str(0), home_id |-> 0, away_id |-> 0,
          home_form |-> NA, away_form |-> NA,
          home_stats |-> ZeroStats, away_stats |-> ZeroStats,
          odds |-> NoOdds, bk |-> 1, queried |-> <<>>,
          skipped_complete |-> FALSE, skipped_clean |-> FALSE,
          odds_done |-> FALSE, got_odds |-> FALSE, db_failed |-> FALSE,
          inserted |-> FALSE, ret |-> "none"]

\* Besides the locals, loc keeps what the properties below speak about:
\*   queried          - the bookmakers get_odds has asked, in order;
\*   skipped_complete - get_odds passed over a payload whose Match Winner
\*                      bet lists Home, Draw and Away (kept while looping);
\*   skipped_clean    - ... one that also parses and has no zero price;
\*   odds_done        - get_odds has returned; got_odds - and returned a quote;
\*   db_failed        - a database call of collect_match_data failed;
\*   inserted         - its INSERT added the predictions row;
\*   ret              - what collect_match_data returned.

\* Locals of collect_today_matches (total_with_odds and total_without_odds
\* are only printed and are left out).
NoRun == [li |-> 1, fixtures |-> <<>>, fi |-> 1, total_collected |-> 0]

\* What is left of collect_match_data's frame once it has returned.
Returned(l, ret) ==
    [NoLoc EXCEPT !.fixture_id = l.fixture_id, !.ret = ret,
                  !.odds_done = l.odds_done, !.got_odds = l.odds.found]

ApiIdle == [retry_count |-> 0,
            outcomes |-> [i \in 1 .. MaxRetryCount + 1 |-> "ok"],
            done |-> FALSE, data |-> NoData, trace |-> <<>>]

TeamIdle == [team_id |-> 1, ok |-> FALSE, response |-> <<>>,
             form_done |-> FALSE, stats_done |-> FALSE,
             form |-> NA, stats |-> ZeroStats]

\* main.py 691-744, 865: jobs run on the BackgroundScheduler's thread, the
\* endpoints on the thread of the Flask server.
Threads == {"scheduler", "server"}

ThreadIdle == [pc |-> "idle", caller |-> "none", wake |-> 0, left |-> 0]

\* time.time() starts at second 1; LAST_REQUEST_TIME = None at import.
SchedIdle == [now |-> 1, LAST_REQUEST_TIME |-> None,
              thr |-> [t \in Threads |-> ThreadIdle], starts |-> {}]

\* database.py 35, 47-52: SimpleConnectionPool(minconn, maxconn); used counts
\* the connections handed out by getconn and not yet given back by putconn.
maxconn == 10
PoolIdle == [used |-> 0, op |-> "none", outcome |-> "none"]

\* send_daily_predictions: telegram_sent of each row (DEFAULT FALSE), the
\* locals filtered_matches, the loop position, success and sent_count, and
\* what the properties speak about: delivered, the matches for which
\* send_telegram_message has returned True, and failed, those for which it
\* has returned False.
SendIds == 1 .. MaxSendMatches
TgIdle == [telegram_sent |-> [m \in SendIds |-> FALSE], pc |-> "idle",
           filtered_matches |-> <<>>, i |-> 1, success |-> FALSE,
           sent_count |-> 0, delivered |-> {}, failed |-> {}]

\* analyze_and_update_predictions: the AI columns of each row (ai_confidence
\* NULL and ai_prediction holding the collector's annotation until a row is
\* analysed), the locals matches, the loop position, ai_result,
\* analyzed_count and error_count, and written, the rows this run updated.
AiIds == 1 .. MaxAiMatches
NotAnalysed == [ai_confidence |-> None, ai_prediction |-> "annotation"]
AiIdle == [rows |-> [m \in AiIds |-> NotAnalysed], pc |-> "idle",
           matches |-> <<>>, idx |-> 1, ai_result |-> "none",
           analyzed_count |-> 0, error_count |-> 0, written |-> {}]

\* One call of deepseek_predict: whether DEEPSEEK_API_KEY is set, max_retries,
\* what the service answers to each attempt, and the result and the
\* requests and sleeps of the call once it has returned.
NoResult == [prediction |-> "none", confidence |-> 0, recommended_bet |-> "none",
             risk_level |-> "none", expected_value |-> 0]
DsIdle == [has_key |-> TRUE, max_retries |-> 0,
           responses |-> [i \in 1 .. MaxDsRetries |-> [kind |-> "request_error"]],
           done |-> FALSE, result |-> NoResult, trace |-> <<>>]

\* One `with get_db_cursor(commit, retry_count)` block: whether get_db gives
\* a connection at each attempt, how the body, conn.commit() and
\* conn.rollback() end, and what the block did once it is over.
NoEnd == [body_runs |-> 0, commits |-> 0, rollbacks |-> 0, raised |-> "none"]
CursorIdle == [commit |-> TRUE, retry_count |-> 0,
               conns |-> [i \in 1 .. MaxDbRetries |-> TRUE],
               body |-> "completes", commit_outcome |-> "ok",
               rollback_ok |-> TRUE, done |-> FALSE, end |-> NoEnd]

\* One call execute_query(query, params, fetch, retry_count): whether
\* get_db gives a connection at each attempt, how the statements of the try
\* block end at each attempt, whether conn.rollback() works, and what the
\* call did once it is over.
NoReturn == [attempts |-> 0, executes |-> 0, commits |-> 0, returned |-> "nothing"]
QueryIdle == [fetch |-> TRUE, retry_count |-> 0,
              conns |-> [i \in 1 .. MaxDbRetries |-> TRUE],
              tries |-> [i \in 1 .. MaxDbRetries |-> "ok"],
              rollback_ok |-> TRUE, done |-> FALSE, end |-> NoReturn]

\* One predictions row put before send_daily_predictions(min_confidence,
\* max_risk), and whether the row was dispatched.  Odds are in hundredths.
FilterIdle == [row |-> [telegram_sent |-> TRUE, in_window |-> TRUE,
                        has_odds |-> TRUE, ai_confidence |-> None,
                        risk_level |-> "HIGH", expected_value |-> None,
                        recommended_bet |-> "Draw", ai_prediction |-> "DRAW",
                        home_odds |-> None, over_2_5_odds |-> None],
               min_confidence |-> 70, max_risk |-> "LOW",
               done |-> FALSE, dispatched |-> FALSE]

\* check_and_update_results: the rows awaiting a result (result is None
\* until written), each thread's run over the rows it selected, and what
\* the last handled match met.
CheckIds == 1 .. MaxCheckMatches
CheckerIdle == [pc |-> "idle", matches |-> <<>>, i |-> 1, runs |-> 0]
NoLast == [thread |-> "none", match |-> 0, status |-> "none"]
CheckIdle == [result |-> [m \in CheckIds |-> NullText],
              thr |-> [t \in Threads |-> CheckerIdle],
              last |-> NoLast]

\* The state of everything but the collection pipeline while it is not used.
ServiceIdle ==
    /\ sched = SchedIdle /\ pool = PoolIdle /\ tg = TgIdle /\ ai = AiIdle
    /\ ds = DsIdle /\ cursorCall = CursorIdle /\ queryCall = QueryIdle
    /\ filterCall = FilterIdle
    /\ chk = CheckIdle

\* ------------------------------------------------ collect_today_matches
\* The position after the fixture at run.fi has been dealt with: the next
\* fixture of the league, or the next league.
PcAfter(r) == IF r.fi < Len(r.fixtures) THEN "collect" ELSE "fetch"
RunAfter(r) ==
    IF r.fi < Len(r.fixtures)
    THEN [r EXCEPT !.fi = @ + 1]
    ELSE [r EXCEPT !.li = @ + 1, !.fixtures = <<>>, !.fi = 1]

\* A run is started (scheduler job, /collect, /run or the command line).
StartRun ==
    /\ pc \in {"idle", "done", "raised"}
    /\ pc' = "fetch"
    /\ run' = NoRun
    /\ loc' = NoLoc
    /\ UNCHANGED <<version, predictions, match_stats, apiCall, teamCall>>
    /\ UNCHANGED serviceVars

\* main.py 1750-1768: the fixtures of league run.li are requested.
FetchLeague ==
    /\ pc = "fetch"
    /\ run.li <= NumLeagues
    /\ \E kinds \in Attempts, payload \in LeaguePayloads :
          LET data == Body(ApiRequest(version, kinds, DEFAULT_RETRY_COUNT), payload)
          IN  IF ~data.ok \/ data.response = <<>>
              THEN /\ run' = [run EXCEPT !.li = @ + 1]
                   /\ pc' = "fetch"
              ELSE /\ run' = [run EXCEPT !.fixtures = data.response, !.fi = 1]
                   /\ pc' = "collect"
    /\ UNCHANGED <<version, loc, predictions, match_stats, apiCall, teamCall>>
    /\ UNCHANGED serviceVars

\* main.py 1790-1804: the loop over league_ids is over, the count is returned.
FinishRun ==
    /\ pc = "fetch"
    /\ run.li > NumLeagues
    /\ pc' = "done"
    /\ UNCHANGED <<version, run, loc, predictions, match_stats, apiCall, teamCall>>
    /\ UNCHANGED serviceVars

\* ---------------------------------------------------- collect_match_data
\* main.py 1618-1628: the fixture's fields are read; a missing one raises
\* KeyError, which the function's except turns into `return False`.
BeginCollect ==
    /\ pc = "collect"
    /\ LET fixture == run.fixtures[run.fi]
       IN  IF ~FixtureOk(fixture)
           THEN /\ loc' = [NoLoc EXCEPT !.ret = "false"]
                /\ run' = RunAfter(run)
                /\ pc' = PcAfter(run)
           ELSE /\ loc' = [NoLoc EXCEPT !.fixture_id = str(fixture.fixture.id),
                                        !.home_id = fixture.teams.home.id,
                                        !.away_id = fixture.teams.away.id]
                /\ run' = run
                /\ pc' = "form_home"
    /\ UNCHANGED <<version, predictions, match_stats, apiCall, teamCall>>
    /\ UNCHANGED serviceVars

\* (faulty variant of after_forms: the rows are written right after the forms)
after_forms_save(v) == "save"
\* main.py 1634-1639, data_collector.py 189-193: what follows the two
\* get_team_form calls, the statistics in main.py, the odds in
\* data_collector.py.
after_forms(v) == IF v = "main" THEN "stats_home" ELSE "odds"

\* home_form = get_team_form(home_id)
FormHome ==
    /\ pc = "form_home"
    /\ \E kinds \in Attempts, payload \in Histories :
          loc' = [loc EXCEPT !.home_form = get_team_form(loc.home_id,
                    Body(ApiRequest(version, kinds, DEFAULT_RETRY_COUNT), payload))]
    /\ pc' = "form_away"
    /\ UNCHANGED <<version, run, predictions, match_stats, apiCall, teamCall>>
    /\ UNCHANGED serviceVars

\* away_form = get_team_form(away_id)
FormAway ==
    /\ pc = "form_away"
    /\ \E kinds \in Attempts, payload \in Histories :
          loc' = [loc EXCEPT !.away_form = get_team_form(loc.away_id,
                    Body(ApiRequest(version, kinds, DEFAULT_RETRY_COUNT), payload))]
    /\ pc' = after_forms(version)
    /\ UNCHANGED <<version, run, predictions, match_stats, apiCall, teamCall>>
    /\ UNCHANGED serviceVars

\* home_stats = calculate_team_stats(home_id)
StatsHome ==
    /\ pc = "stats_home"
    /\ \E kinds \in Attempts, payload \in Histories :
          loc' = [loc EXCEPT !.home_stats = calculate_team_stats(loc.home_id,
                    Body(ApiRequest(version, kinds, DEFAULT_RETRY_COUNT), payload))]
    /\ pc' = "stats_away"
    /\ UNCHANGED <<version, run, predictions, match_stats, apiCall, teamCall>>
    /\ UNCHANGED serviceVars

\* away_stats = calculate_team_stats(away_id)
StatsAway ==
    /\ pc = "stats_away"
    /\ \E kinds \in Attempts, payload \in Histories :
          loc' = [loc EXCEPT !.away_stats = calculate_team_stats(loc.away_id,
                    Body(ApiRequest(version, kinds, DEFAULT_RETRY_COUNT), payload))]
    /\ pc' = IF version = "main" THEN "odds" ELSE "save"
    /\ UNCHANGED <<version, run, predictions, match_stats, apiCall, teamCall>>
    /\ UNCHANGED serviceVars

\* Whether a payload parses without raising, and whether it is a quote
\* get_odds has no reason to pass over: its Match Winner bet lists a
\* non-zero price for Home, Draw and Away and nothing in it fails to parse.
ParsesCleanly(v, payload) ==
    /\ payload # <<>>
    /\ payload[1].bookmakers # <<>>
    /\ ~bets_loop(v, payload[1].bookmakers[1].bets, 1,
                  [exc |-> FALSE, od |-> odds_data(None)]).exc
NonZero1X2(payload) ==
    /\ PayloadHas1X2(payload)
    /\ \A i \in DOMAIN payload[1].bookmakers[1].bets :
          LET bet == payload[1].bookmakers[1].bets[i]
          IN  (bet.name = "Match Winner" /\ "values" \in DOMAIN bet) =>
                 \A j \in DOMAIN bet.values :
                    bet.values[j].value \in {<<"Home">>, <<"Draw">>, <<"Away">>}
                       => bet.values[j].odd > 0

\* (faulty variant of loop_ends: the last entry is never asked)
loop_ends_early(bk) == bk >= Len(BOOKMAKERS) - 1
\* main.py 1555: `for bookmaker_id in BOOKMAKERS` ends after the last entry.
loop_ends(bk) == bk >= Len(BOOKMAKERS)

\* main.py 1555-1578: one pass of get_odds's loop over BOOKMAKERS.
QueryBookmaker ==
    /\ pc = "odds"
    /\ version = "main"
    /\ LET bookmaker_id == BOOKMAKERS[loc.bk]
       IN  \E kinds \in Attempts, payload \in OddsPayloads(bookmaker_id) :
              LET data == Body(ApiRequest(version, kinds, DEFAULT_RETRY_COUNT), payload)
                  odds == get_odds_from_bookmaker(bookmaker_id, data)
                  seen == [loc EXCEPT
                             !.queried = Append(@, bookmaker_id),
                             !.skipped_complete = @ \/
                                 (~odds.found /\ data.ok /\ PayloadHas1X2(payload)),
                             !.skipped_clean = @ \/
                                 (~odds.found /\ data.ok /\ NonZero1X2(payload)
                                  /\ ParsesCleanly(version, payload))]
              IN  IF odds.found
                  THEN /\ loc' = [seen EXCEPT !.odds = tag(odds, bookmaker_id),
                                              !.odds_done = TRUE,
                                              !.skipped_complete = FALSE]
                       /\ pc' = "save"
                  ELSE IF ~loop_ends(loc.bk)
                  THEN /\ loc' = [seen EXCEPT !.bk = @ + 1]
                       /\ pc' = "odds"
                  ELSE /\ loc' = [seen EXCEPT !.odds = NoOdds, !.odds_done = TRUE,
                                              !.skipped_complete = FALSE]
                       /\ pc' = "save"
    /\ UNCHANGED <<version, run, predictions, match_stats, apiCall, teamCall>>
    /\ UNCHANGED serviceVars

\* data_collector.py 192-197: get_odds asks Bet365 only, and a fixture
\* without odds is skipped: collect_match_data returns False.
QueryBet365 ==
    /\ pc = "odds"
    /\ version = "dc"
    /\ \E kinds \in Attempts, payload \in OddsPayloads(8) :
          LET data == Body(ApiRequest(version, kinds, DEFAULT_RETRY_COUNT), payload)
              odds == dc_get_odds(data)
              seen == [loc EXCEPT !.queried = Append(@, 8), !.odds = odds,
                                  !.odds_done = TRUE]
          IN  IF odds.found
              THEN /\ loc' = seen
                   /\ run' = run
                   /\ pc' = "stats_home"
              ELSE /\ loc' = Returned(seen, "false")
                   /\ run' = RunAfter(run)
                   /\ pc' = PcAfter(run)
    /\ UNCHANGED <<version, predictions, match_stats, apiCall, teamCall>>
    /\ UNCHANGED serviceVars

\* The predictions row collect_match_data inserts.
prediction_row(v, l) ==
    IF v = "dc" THEN dc_prediction(l)
    ELSE IF l.odds.found THEN prediction_with_odds(l)
    ELSE prediction_without_odds(l)

\* main.py 1645-1726: get_db, the two INSERTs, commit, close_db, return
\* True; any exception on the way is caught and turned into return False
\* with nothing committed.  In data_collector.py the caller then counts
\* the fixture; in main.py it goes on to look the row up.
Save ==
    /\ pc = "save"
    /\ \E outcome \in SaveOutcomes :
          IF outcome = "ok"
          THEN /\ predictions' = insert_do_nothing(predictions,
                                                   prediction_row(version, loc))
               /\ match_stats' = insert_do_nothing(match_stats, stats_row(loc))
               /\ loc' = [Returned(loc, "true") EXCEPT
                             !.inserted = ~HasRow(predictions, loc.fixture_id)]
               /\ IF version = "main"
                  THEN /\ run' = [run EXCEPT !.total_collected = @ + 1]
                       /\ pc' = "check"
                  ELSE /\ run' = [RunAfter(run) EXCEPT !.total_collected = @ + 1]
                       /\ pc' = PcAfter(run)
          ELSE /\ loc' = [Returned(loc, "false") EXCEPT !.db_failed = TRUE]
               /\ run' = RunAfter(run)
               /\ pc' = PcAfter(run)
               /\ predictions' = abandoned_transaction(predictions,
                                      prediction_row(version, loc), outcome)
               /\ UNCHANGED match_stats
    /\ UNCHANGED <<version, apiCall, teamCall>>
    /\ UNCHANGED serviceVars

\* main.py 1773-1788: after a successful collect_match_data the row's
\* home_odds is read back, outside any try: get_db returning None or a
\* failing SELECT raises out of collect_today_matches.
CheckOdds ==
    /\ pc = "check"
    /\ \E outcome \in CheckOutcomes :
          IF outcome = "ok"
          THEN LET with == /\ HasRow(predictions, loc.fixture_id)
                           /\ RowOf(predictions, loc.fixture_id).home_odds # None
               IN  /\ run' = RunAfter(run)
                   /\ pc' = PcAfter(run)
          ELSE /\ run' = run
               /\ pc' = "raised"
    /\ UNCHANGED <<version, loc, predictions, match_stats, apiCall, teamCall>>
    /\ UNCHANGED serviceVars

Init ==
    /\ version \in Versions
    /\ ServiceIdle
    /\ pc = "idle"
    /\ run = NoRun
    /\ loc = NoLoc
    /\ predictions = {}
    /\ match_stats = {}
    /\ apiCall = ApiIdle
    /\ teamCall = TeamIdle

Next ==
    \/ StartRun
    \/ FetchLeague
    \/ FinishRun
    \/ BeginCollect
    \/ FormHome
    \/ FormAway
    \/ StatsHome
    \/ StatsAway
    \/ QueryBookmaker
    \/ QueryBet365
    \/ Save
    \/ CheckOdds

Spec == Init /\ [][Next]_vars

\* ------------------------------------------- api_request on its own
InitApi ==
    /\ version \in Versions
    /\ ServiceIdle
    /\ pc = "idle"
    /\ run = NoRun
    /\ loc = NoLoc
    /\ predictions = {}
    /\ match_stats = {}
    /\ teamCall = TeamIdle
    /\ apiCall \in [retry_count : 0 .. MaxRetryCount,
                    outcomes : [1 .. MaxRetryCount + 1 -> AttemptKinds],
                    done : {FALSE}, data : {NoData}, trace : {<<>>}]

\* api_request(url, params, retry_count) is called and returns.
CallApiRequest ==
    /\ ~apiCall.done
    /\ LET res == ApiRequest(version, apiCall.outcomes, apiCall.retry_count)
       IN  apiCall' = [apiCall EXCEPT !.done = TRUE, !.data = res.data,
                                      !.trace = res.trace]
    /\ UNCHANGED <<version, pc, run, loc, predictions, match_stats, teamCall>>
    /\ UNCHANGED serviceVars

NextApi == CallApiRequest

SpecApi == InitApi /\ [][NextApi]_vars

\* ------------------------- get_team_form / calculate_team_stats on their own
HistoriesUpTo(n) == UNION {[1 .. k -> Matches] : k \in 0 .. n}

\* params = {"team": team_id, "last": 5}: the provider is asked for five
\* matches; how many it sends is its own affair.
FORM_LAST == 5

\* Longer histories, of three matches team 1 played at home: a 2-1 win,
\* a 1-1 draw, and one whose home score is null.
SampleMatches == {Match(1, 2, 1), Match(1, 1, 1), Match(1, None, 1)}
LongHistories ==
    UNION {[1 .. k -> SampleMatches] : k \in MaxMatches + 1 .. MaxLongHistory}

InitTeam ==
    /\ version \in Versions
    /\ ServiceIdle
    /\ pc = "idle"
    /\ run = NoRun
    /\ loc = NoLoc
    /\ predictions = {}
    /\ match_stats = {}
    /\ apiCall = ApiIdle
    /\ \E team_id \in TeamIds, ok \in BOOLEAN,
          response \in HistoriesUpTo(MaxMatches) \cup LongHistories :
          /\ ok \/ response = <<>>
          /\ teamCall = [TeamIdle EXCEPT !.team_id = team_id, !.ok = ok,
                                         !.response = response]

\* get_team_form(team_id) is called and returns.
CallGetTeamForm ==
    /\ ~teamCall.form_done
    /\ teamCall' = [teamCall EXCEPT !.form_done = TRUE,
                      !.form = get_team_form(teamCall.team_id,
                                 [ok |-> teamCall.ok, response |-> teamCall.response])]
    /\ UNCHANGED <<version, pc, run, loc, predictions, match_stats, apiCall>>
    /\ UNCHANGED serviceVars

\* calculate_team_stats(team_id) is called and returns.
CallCalculateTeamStats ==
    /\ ~teamCall.stats_done
    /\ teamCall' = [teamCall EXCEPT !.stats_done = TRUE,
                      !.stats = calculate_team_stats(teamCall.team_id,
                                 [ok |-> teamCall.ok, response |-> teamCall.response])]
    /\ UNCHANGED <<version, pc, run, loc, predictions, match_stats, apiCall>>
    /\ UNCHANGED serviceVars

NextTeam == CallGetTeamForm \/ CallCalculateTeamStats

SpecTeam == InitTeam /\ [][NextTeam]_vars

\* ------------------------- rate_limit under the scheduler and the endpoints
MIN_REQUEST_INTERVAL == 1  \* seconds

\* What starts collect_today_matches on each thread: the 07:00 job on the
\* scheduler's thread, GET /collect and GET /run on the server's.
CallersOf(t) ==
    IF t = "scheduler" THEN {"collect_morning"}
    ELSE {"collect_endpoint", "run_endpoint"}

InitSched ==
    /\ version \in Versions
    /\ pc = "idle"
    /\ run = NoRun
    /\ loc = NoLoc
    /\ predictions = {}
    /\ match_stats = {}
    /\ apiCall = ApiIdle
    /\ teamCall = TeamIdle
    /\ sched = SchedIdle
    /\ pool = PoolIdle
    /\ tg = TgIdle
    /\ ai = AiIdle
    /\ ds = DsIdle
    /\ cursorCall = CursorIdle
    /\ queryCall = QueryIdle
    /\ filterCall = FilterIdle
    /\ chk = CheckIdle

\* main.py 694-700: the job fires (max_instances=1: not while its previous
\* instance runs) and calls collect_today_matches, which goes on to its
\* first api_request; nothing else is looked at before it starts.
JobFires ==
    /\ sched.thr["scheduler"].pc = "idle"
    /\ \E n \in 1 .. MaxCalls :
          sched' = [sched EXCEPT !.thr["scheduler"] =
                       [pc |-> "rate_limit", caller |-> "collect_morning",
                        wake |-> 0, left |-> n]]
    /\ UNCHANGED <<pipelineVars, pool, tg, ai, ds, cursorCall, queryCall, filterCall, chk>>

\* main.py 806-812, 846-862: the server takes a request for /collect or
\* /run and the handler calls collect_today_matches.
EndpointCalled ==
    /\ sched.thr["server"].pc = "idle"
    /\ \E c \in CallersOf("server"), n \in 1 .. MaxCalls :
          sched' = [sched EXCEPT !.thr["server"] =
                       [pc |-> "rate_limit", caller |-> c, wake |-> 0, left |-> n]]
    /\ UNCHANGED <<pipelineVars, pool, tg, ai, ds, cursorCall, queryCall, filterCall, chk>>

\* rate_limit, lines 1418-1421: LAST_REQUEST_TIME is read and the thread
\* goes to sleep until MIN_REQUEST_INTERVAL has passed since it (wake = now
\* when there is nothing to wait for).
RateLimitRead(t) ==
    /\ sched.thr[t].pc = "rate_limit"
    /\ LET last == sched.LAST_REQUEST_TIME
           elapsed == sched.now - last
           wake == IF Truthy(last) /\ elapsed < MIN_REQUEST_INTERVAL
                   THEN sched.now + (MIN_REQUEST_INTERVAL - elapsed)
                   ELSE sched.now
       IN  sched' = [sched EXCEPT !.thr[t].pc = "sleep", !.thr[t].wake = wake]
    /\ UNCHANGED <<pipelineVars, pool, tg, ai, ds, cursorCall, queryCall, filterCall, chk>>

\* rate_limit, line 1422, and requests.get, line 1429: once the sleep is
\* over the thread stamps LAST_REQUEST_TIME and starts its request.
StampAndRequest(t) ==
    /\ sched.thr[t].pc = "sleep"
    /\ sched.now >= sched.thr[t].wake
    /\ sched' = [sched EXCEPT !.LAST_REQUEST_TIME = sched.now,
                              !.thr[t].pc = "request",
                              !.starts = @ \cup {[thread |-> t, at |-> sched.now]}]
    /\ UNCHANGED <<pipelineVars, pool, tg, ai, ds, cursorCall, queryCall, filterCall, chk>>

\* The request ends (answer, error or timeout); the run goes on to its
\* next api_request or attempt, or collect_today_matches returns.
RequestEnds(t) ==
    /\ sched.thr[t].pc = "request"
    /\ sched' = [sched EXCEPT !.thr[t] =
                    IF @.left > 1 THEN [@ EXCEPT !.pc = "rate_limit", !.left = @ - 1]
                    ELSE ThreadIdle]
    /\ UNCHANGED <<pipelineVars, pool, tg, ai, ds, cursorCall, queryCall, filterCall, chk>>

\* A second passes.
Tick ==
    /\ sched.now < MaxTime
    /\ sched' = [sched EXCEPT !.now = @ + 1]
    /\ UNCHANGED <<pipelineVars, pool, tg, ai, ds, cursorCall, queryCall, filterCall, chk>>

NextSched ==
    \/ JobFires
    \/ EndpointCalled
    \/ \E t \in Threads : RateLimitRead(t)
    \/ \E t \in Threads : StampAndRequest(t)
    \/ \E t \in Threads : RequestEnds(t)
    \/ Tick

SpecSched == InitSched /\ [][NextSched]_vars

\* ------------------------------------------- get_db / close_db in operations
\* database.py 73-117: get_db hands out a pool connection, or None when the
\* server cannot be reached or the pool has no connection left (getconn
\* raises PoolError, caught at line 113).
get_db_gives(used, outcome) == outcome # "no_conn" /\ used < maxconn

\* Whether an operation gives its connection back when a statement after
\* get_db raises: none of them has a finally or a close_db in its except
\* clause (main.py 1724-1726, 1774-1781; create_tables.py 5-335).
released_on_failure(op) == FALSE

\* The connections checked out once operation op has ended with outcome.
used_after(used, op, outcome) ==
    IF ~get_db_gives(used, outcome) THEN used
    ELSE IF outcome = "ok" \/ released_on_failure(op) THEN used
    ELSE used + 1

CreateOutcomes == {"ok", "no_conn", "execute_fails", "commit_fails"}

InitPool ==
    /\ version \in Versions
    /\ pc = "idle"
    /\ run = NoRun
    /\ loc = NoLoc
    /\ predictions = {}
    /\ match_stats = {}
    /\ apiCall = ApiIdle
    /\ teamCall = TeamIdle
    /\ sched = SchedIdle
    /\ pool = PoolIdle
    /\ tg = TgIdle
    /\ ai = AiIdle
    /\ ds = DsIdle
    /\ cursorCall = CursorIdle
    /\ queryCall = QueryIdle
    /\ filterCall = FilterIdle
    /\ chk = CheckIdle

\* main.py 1645-1726, data_collector.py 204-254: collect_match_data's
\* get_db, INSERTs, commit and close_db.
CollectMatchDataDb ==
    /\ \E outcome \in SaveOutcomes :
          pool' = [used |-> used_after(pool.used, "collect_match_data", outcome),
                   op |-> "collect_match_data",
                   outcome |-> IF get_db_gives(pool.used, outcome)
                               THEN outcome ELSE "no_conn"]
    /\ UNCHANGED <<pipelineVars, sched, tg, ai, ds, cursorCall, queryCall, filterCall, chk>>

\* main.py 1774-1781: collect_today_matches reads the row back.
ReadBackDb ==
    /\ version = "main"
    /\ \E outcome \in CheckOutcomes :
          pool' = [used |-> used_after(pool.used, "collect_today_matches", outcome),
                   op |-> "collect_today_matches",
                   outcome |-> IF get_db_gives(pool.used, outcome)
                               THEN outcome ELSE "no_conn"]
    /\ UNCHANGED <<pipelineVars, sched, tg, ai, ds, cursorCall, queryCall, filterCall, chk>>

\* create_tables.py 3-335: get_db, the DDL statements, commit, close_db.
CreateTablesDb ==
    /\ \E outcome \in CreateOutcomes :
          pool' = [used |-> used_after(pool.used, "create_tables", outcome),
                   op |-> "create_tables",
                   outcome |-> IF get_db_gives(pool.used, outcome)
                               THEN outcome ELSE "no_conn"]
    /\ UNCHANGED <<pipelineVars, sched, tg, ai, ds, cursorCall, queryCall, filterCall, chk>>

NextPool == CollectMatchDataDb \/ ReadBackDb \/ CreateTablesDb

SpecPool == InitPool /\ [][NextPool]_vars

\* ------------------------------------------------- send_daily_predictions
\* The lists an ORDER BY may give of a set of rows.
Orderings(S) ==
    {q \in UNION {[1 .. k -> S] : k \in 0 .. Cardinality(S)} :
        /\ Len(q) = Cardinality(S)
        /\ \A i, j \in DOMAIN q : i # j => q[i] # q[j]}

\* What mark_telegram_sent's execute_query does: the UPDATE is committed,
\* or it fails and None comes back.
MarkOutcomes == {"ok", "none"}

\* (faulty variant of marks: the row is marked whatever the send returned)
marks_always(success) == TRUE
\* main.py 502-504: `if success:` guards mark_telegram_sent.
marks(success) == success

InitSend ==
    /\ version \in Versions
    /\ pc = "idle"
    /\ run = NoRun
    /\ loc = NoLoc
    /\ predictions = {}
    /\ match_stats = {}
    /\ apiCall = ApiIdle
    /\ teamCall = TeamIdle
    /\ sched = SchedIdle
    /\ pool = PoolIdle
    /\ tg = TgIdle
    /\ ai = AiIdle
    /\ ds = DsIdle
    /\ cursorCall = CursorIdle
    /\ queryCall = QueryIdle
    /\ filterCall = FilterIdle
    /\ chk = CheckIdle

\* main.py 390-489: the rows with telegram_sent = FALSE that pass the
\* query's and the loop's filters are selected (execute_query returning None
\* gives none); with none selected the function returns 0, otherwise the
\* header is sent and the loop starts.
StartSend ==
    /\ tg.pc \in {"idle", "done"}
    /\ \E S \in SUBSET {m \in SendIds : ~tg.telegram_sent[m]} :
          \E q \in Orderings(S) :
             tg' = [tg EXCEPT !.filtered_matches = q, !.i = 1, !.success = FALSE,
                              !.sent_count = 0,
                              !.pc = IF q = <<>> THEN "done" ELSE "send"]
    /\ UNCHANGED <<pipelineVars, sched, pool, ai, ds, cursorCall, queryCall, filterCall, chk>>

\* main.py 491-500: the message of the match is sent and the attempt is
\* logged (log_telegram_message keeps its own errors to itself).
SendMessage ==
    /\ tg.pc = "send"
    /\ LET match == tg.filtered_matches[tg.i]
       IN  \E success \in BOOLEAN :
              tg' = [tg EXCEPT !.success = success, !.pc = "mark",
                               !.delivered = IF success THEN @ \cup {match} ELSE @,
                               !.failed = IF success THEN @ ELSE @ \cup {match}]
    /\ UNCHANGED <<pipelineVars, sched, pool, ai, ds, cursorCall, queryCall, filterCall, chk>>

\* main.py 502-521: after a successful send the row is marked and counted;
\* then the next match, or the footer and the return of sent_count.
MarkSent ==
    /\ tg.pc = "mark"
    /\ LET match == tg.filtered_matches[tg.i]
           last == tg.i = Len(tg.filtered_matches)
       IN  \E outcome \in MarkOutcomes :
              tg' = [tg EXCEPT
                       !.telegram_sent[match] =
                           IF marks(tg.success) /\ outcome = "ok" THEN TRUE ELSE @,
                       !.sent_count = IF marks(tg.success) THEN @ + 1 ELSE @,
                       !.i = IF last THEN @ ELSE @ + 1,
                       !.pc = IF last THEN "done" ELSE "send"]
    /\ UNCHANGED <<pipelineVars, sched, pool, ai, ds, cursorCall, queryCall, filterCall, chk>>

NextSend == StartSend \/ SendMessage \/ MarkSent

SpecSend == InitSend /\ [][NextSend]_vars

\* ----------------------------------------- analyze_and_update_predictions
\* The predictions deepseek_predict may hand to the loop: a validated one,
\* or a sentinel (NO_API_KEY cannot come back here, the function having
\* returned at line 238-240 when the key is missing).
AiResults == {"HOME_WIN", "OVER_2.5", "ERROR", "PARSE_ERROR"}
ErrorPredictions == {"ERROR", "PARSE_ERROR", "NO_API_KEY"}

\* (faulty variant of is_error_result: PARSE_ERROR is let through)
is_error_result_partial(prediction) == prediction \in {"ERROR", "NO_API_KEY"}
\* main.py 291: the results the loop refuses to store.
is_error_result(prediction) == prediction \in ErrorPredictions

\* What the `with get_db_cursor()` block of the loop does: the UPDATE is
\* committed, or the block raises with nothing committed.
UpdateOutcomes == {"ok", "raises"}

InitAi ==
    /\ version \in Versions
    /\ pc = "idle"
    /\ run = NoRun
    /\ loc = NoLoc
    /\ predictions = {}
    /\ match_stats = {}
    /\ apiCall = ApiIdle
    /\ teamCall = TeamIdle
    /\ sched = SchedIdle
    /\ pool = PoolIdle
    /\ tg = TgIdle
    /\ ai = AiIdle
    /\ ds = DsIdle
    /\ cursorCall = CursorIdle
    /\ queryCall = QueryIdle
    /\ filterCall = FilterIdle
    /\ chk = CheckIdle

\* main.py 231-283: without an API key the function returns 0; otherwise
\* the rows with ai_confidence IS NULL that pass the query's other
\* conditions are selected (none when execute_query returns None), and
\* with none selected it returns 0.
StartAnalyze ==
    /\ ai.pc \in {"idle", "done"}
    /\ \E has_key \in BOOLEAN :
          \E S \in SUBSET {m \in AiIds : ai.rows[m].ai_confidence = None} :
             \E q \in Orderings(S) :
                LET matches == IF has_key THEN q ELSE <<>>
                IN  ai' = [ai EXCEPT !.matches = matches, !.idx = 1,
                                     !.ai_result = "none",
                                     !.analyzed_count = 0, !.error_count = 0,
                                     !.written = {},
                                     !.pc = IF matches = <<>> THEN "done"
                                            ELSE "predict"]
    /\ UNCHANGED <<pipelineVars, sched, pool, tg, ds, cursorCall, queryCall, filterCall, chk>>

\* main.py 288: ai_result = deepseek_predict(match)
Predict ==
    /\ ai.pc = "predict"
    /\ \E prediction \in AiResults :
          ai' = [ai EXCEPT !.ai_result = prediction, !.pc = "update"]
    /\ UNCHANGED <<pipelineVars, sched, pool, tg, ds, cursorCall, queryCall, filterCall, chk>>

\* main.py 290-331: an error result is counted and passed over; any other
\* is written with its confidence inside get_db_cursor and counted, a
\* raising block being counted as an error; then the next match, or the
\* return of analyzed_count.
Update ==
    /\ ai.pc = "update"
    /\ LET match == ai.matches[ai.idx]
           last == ai.idx = Len(ai.matches)
           after == [ai EXCEPT !.idx = IF last THEN @ ELSE @ + 1,
                               !.pc = IF last THEN "done" ELSE "predict"]
       IN  IF is_error_result(ai.ai_result)
           THEN ai' = [after EXCEPT !.error_count = @ + 1]
           ELSE \E outcome \in UpdateOutcomes :
                   IF outcome = "ok"
                   THEN ai' = [after EXCEPT
                                 !.rows[match] = [ai_confidence |-> 75,
                                                  ai_prediction |-> ai.ai_result],
                                 !.analyzed_count = @ + 1,
                                 !.written = @ \cup {match}]
                   ELSE ai' = [after EXCEPT !.error_count = @ + 1]
    /\ UNCHANGED <<pipelineVars, sched, pool, tg, ds, cursorCall, queryCall, filterCall, chk>>

NextAi == StartAnalyze \/ Predict \/ Update

SpecAi == InitAi /\ [][NextAi]_vars

\* --------------------------------------------------------- deepseek_predict
NotANumber == -3        \* a JSON string float() rejects with ValueError

\* The JSON object of an answer; a key the object lacks is absent from the
\* record's DOMAIN, a JSON null is None.
GoodData == [prediction |-> "HOME_WIN", confidence |-> 75, reasoning |-> "text",
             recommended_bet |-> "Home Win", risk_level |-> "LOW",
             expected_value |-> 115]
NoReasoningData == [prediction |-> "HOME_WIN", confidence |-> 75,
                    recommended_bet |-> "Home Win", risk_level |-> "LOW",
                    expected_value |-> 115]
Datas == {GoodData, NoReasoningData,
          [GoodData EXCEPT !.prediction = "MAYBE"],
          [GoodData EXCEPT !.confidence = 150],
          [GoodData EXCEPT !.confidence = NotANumber],
          [GoodData EXCEPT !.risk_level = "EXTREME"],
          [GoodData EXCEPT !.expected_value = NotANumber],
          [GoodData EXCEPT !.reasoning = NullText]}

\* What one attempt meets: requests.post or raise_for_status raises; the
\* body has no choices[0].message.content; the content is not JSON; the
\* content is JSON but not an object; the content is the object data.
DsResponses ==
    {[kind |-> k] : k \in {"request_error", "no_choices", "not_json", "not_dict"}}
       \cup {[kind |-> "json", data |-> d] : d \in Datas}

required_fields == {"prediction", "confidence", "reasoning", "recommended_bet",
                    "risk_level", "expected_value"}
valid_predictions == {"HOME_WIN", "DRAW", "AWAY_WIN", "OVER_2.5", "UNDER_2.5",
                      "BTTS_YES"}

\* (faulty variant of validate_deepseek_response: risk_level is not looked at)
validate_without_risk_level(response) ==
    /\ response.kind = "json"
    /\ required_fields \subseteq DOMAIN response.data
    /\ response.data.prediction \in valid_predictions
    /\ response.data.confidence \notin {None, NotANumber}
    /\ 0 <= response.data.confidence /\ response.data.confidence <= 100
\* main.py 83-111: validate_deepseek_response(data)
validate_deepseek_response(response) ==
    /\ response.kind = "json"
    /\ required_fields \subseteq DOMAIN response.data
    /\ response.data.prediction \in valid_predictions
    /\ response.data.confidence \notin {None, NotANumber}
    /\ 0 <= response.data.confidence /\ response.data.confidence <= 100
    /\ response.data.risk_level \in {"LOW", "MEDIUM", "HIGH"}

\* main.py 195-202: the result dict is built; float(expected_value) and
\* reasoning[:150] raise on a value of another type.
builds_result(data) ==
    /\ data.expected_value \notin {None, NotANumber}
    /\ data.reasoning # NullText

Sentinel(prediction) ==
    [prediction |-> prediction, confidence |-> 0, recommended_bet |-> "SKIP",
     risk_level |-> "HIGH", expected_value |-> 0]

ResultOf(data) ==
    [prediction |-> data.prediction, confidence |-> data.confidence,
     recommended_bet |-> data.recommended_bet, risk_level |-> data.risk_level,
     expected_value |-> data.expected_value]

\* The except clause an attempt ends in: "none" (the result is returned),
\* "JSONDecodeError" (line 204) or "Exception" (line 217).
raised_by(response) ==
    IF response.kind = "not_json" THEN "JSONDecodeError"
    ELSE IF response.kind \in {"request_error", "no_choices"} THEN "Exception"
    ELSE IF ~validate_deepseek_response(response) THEN "Exception"
    ELSE IF ~builds_result(response.data) THEN "Exception"
    ELSE "none"

\* (faulty variant of backoff: a fixed delay)
backoff_fixed(attempt) == 2
\* main.py 207, 220: time.sleep(2 ** attempt)
backoff(attempt) == 2 ^ attempt

Sleep(secs) == [op |-> "sleep", secs |-> secs]
Post == [op |-> "request", secs |-> 0]

RECURSIVE ds_attempt(_, _, _, _)
ds_attempt(responses, max_retries, attempt, trace) ==
    IF ~(attempt < max_retries)
    THEN [result |-> NoResult, trace |-> trace]          \* falls off the loop
    ELSE LET response == responses[attempt + 1]
             t1 == Append(trace, Post)
             exc == raised_by(response)
         IN  IF exc = "none"
             THEN [result |-> ResultOf(response.data), trace |-> t1]
             ELSE IF attempt < max_retries - 1
             THEN ds_attempt(responses, max_retries, attempt + 1,
                             Append(t1, Sleep(backoff(attempt))))
             ELSE [result |-> Sentinel(IF exc = "JSONDecodeError"
                                       THEN "PARSE_ERROR" ELSE "ERROR"),
                   trace |-> t1]

\* main.py 113-229: deepseek_predict(match_data, max_retries)
deepseek_predict(has_key, responses, max_retries) ==
    IF ~has_key THEN [result |-> Sentinel("NO_API_KEY"), trace |-> <<>>]
    ELSE ds_attempt(responses, max_retries, 0, <<>>)

InitDs ==
    /\ version \in Versions
    /\ pc = "idle"
    /\ run = NoRun
    /\ loc = NoLoc
    /\ predictions = {}
    /\ match_stats = {}
    /\ apiCall = ApiIdle
    /\ teamCall = TeamIdle
    /\ sched = SchedIdle
    /\ pool = PoolIdle
    /\ tg = TgIdle
    /\ ai = AiIdle
    /\ ds \in [has_key : BOOLEAN, max_retries : 0 .. MaxDsRetries,
                responses : [1 .. MaxDsRetries -> DsResponses],
                done : {FALSE}, result : {NoResult}, trace : {<<>>}]
    /\ ds.has_key \/ ds.responses = DsIdle.responses
    /\ cursorCall = CursorIdle
    /\ queryCall = QueryIdle
    /\ filterCall = FilterIdle
    /\ chk = CheckIdle

\* deepseek_predict(match_data, max_retries) is called and returns.
CallDeepseekPredict ==
    /\ ~ds.done
    /\ LET res == deepseek_predict(ds.has_key, ds.responses, ds.max_retries)
       IN  ds' = [ds EXCEPT !.done = TRUE, !.result = res.result,
                            !.trace = res.trace]
    /\ UNCHANGED <<pipelineVars, sched, pool, tg, ai, cursorCall, queryCall, filterCall, chk>>

NextDs == CallDeepseekPredict

SpecDs == InitDs /\ [][NextDs]_vars

\* ------------------------------------------------------------ get_db_cursor
\* How the body of the with-block ends, and how conn.commit() ends.
BodyEnds == {"completes", "OperationalError", "Exception"}
CommitEnds == {"ok", "OperationalError", "Exception"}

\* What propagates out of the with statement:
\*   "none"            - nothing, the block ends normally;
\*   "body"            - the exception the body raised;
\*   "commit"          - the exception conn.commit() raised;
\*   "rollback"        - the exception conn.rollback() raised in a handler;
\*   "no_connection"   - Exception("Veritabanı bağlantısı oluşturulamadı");
\*   "RuntimeError"    - contextlib's "generator didn't stop" / "didn't
\*                       stop after throw()" / "didn't yield", raised when
\*                       the generator yields again or not at all.
Raises(end, what) == [end EXCEPT !.raised = what]

\* database.py 191-199 after a handler's `continue`: the loop goes on with
\* the next attempt; the generator yields a second time if get_db gives a
\* connection, and raises line 199's exception if it never does.
RECURSIVE resumed_loop(_, _, _)
resumed_loop(c, attempt, end) ==
    IF ~(attempt < c.retry_count) THEN Raises(end, "RuntimeError")
    ELSE IF c.conns[attempt + 1] THEN Raises(end, "RuntimeError")
    ELSE IF attempt < c.retry_count - 1 THEN resumed_loop(c, attempt + 1, end)
    ELSE Raises(end, "no_connection")

\* database.py 209-218: except psycopg2.OperationalError, entered with the
\* exception orig of the body or of commit.
operational_error_handler(c, attempt, end, orig) ==
    LET e1 == [end EXCEPT !.rollbacks = @ + 1]
    IN  IF ~c.rollback_ok THEN Raises(e1, "rollback")
        ELSE IF attempt < c.retry_count - 1 THEN resumed_loop(c, attempt + 1, e1)
        ELSE Raises(e1, orig)

\* database.py 220-224: except Exception.
exception_handler(c, end, orig) ==
    LET e1 == [end EXCEPT !.rollbacks = @ + 1]
    IN  IF ~c.rollback_ok THEN Raises(e1, "rollback") ELSE Raises(e1, orig)

\* database.py 201-207: the cursor is yielded, the body runs, and after a
\* body that completed the transaction is committed when commit is set.
yielded(c, attempt) ==
    LET e0 == [NoEnd EXCEPT !.body_runs = 1]
    IN  IF c.body = "OperationalError"
        THEN operational_error_handler(c, attempt, e0, "body")
        ELSE IF c.body = "Exception" THEN exception_handler(c, e0, "body")
        ELSE IF ~c.commit THEN e0
        ELSE LET e1 == [e0 EXCEPT !.commits = 1]
             IN  IF c.commit_outcome = "ok" THEN e1
                 ELSE IF c.commit_outcome = "OperationalError"
                 THEN operational_error_handler(c, attempt, [e1 EXCEPT !.commits = 0],
                                                "commit")
                 ELSE exception_handler(c, [e1 EXCEPT !.commits = 0], "commit")

\* database.py 188-199: the loop up to the first yield.
RECURSIVE get_db_cursor(_, _)
get_db_cursor(c, attempt) ==
    IF ~(attempt < c.retry_count) THEN Raises(NoEnd, "RuntimeError")
    ELSE IF c.conns[attempt + 1] THEN yielded(c, attempt)
    ELSE IF attempt < c.retry_count - 1 THEN get_db_cursor(c, attempt + 1)
    ELSE Raises(NoEnd, "no_connection")

InitCursor ==
    /\ version \in Versions
    /\ pc = "idle"
    /\ run = NoRun
    /\ loc = NoLoc
    /\ predictions = {}
    /\ match_stats = {}
    /\ apiCall = ApiIdle
    /\ teamCall = TeamIdle
    /\ sched = SchedIdle
    /\ pool = PoolIdle
    /\ tg = TgIdle
    /\ ai = AiIdle
    /\ ds = DsIdle
    /\ cursorCall \in [commit : BOOLEAN, retry_count : 0 .. MaxDbRetries,
                        conns : [1 .. MaxDbRetries -> BOOLEAN],
                        body : BodyEnds, commit_outcome : CommitEnds,
                        rollback_ok : BOOLEAN, done : {FALSE}, end : {NoEnd}]
    /\ queryCall = QueryIdle
    /\ filterCall = FilterIdle
    /\ chk = CheckIdle

\* A `with get_db_cursor(commit, retry_count) as cur:` statement is run.
WithGetDbCursor ==
    /\ ~cursorCall.done
    /\ cursorCall' = [cursorCall EXCEPT !.done = TRUE,
                                        !.end = get_db_cursor(cursorCall, 0)]
    /\ UNCHANGED <<pipelineVars, sched, pool, tg, ai, ds, queryCall, filterCall, chk>>

NextCursor == WithGetDbCursor

SpecCursor == InitCursor /\ [][NextCursor]_vars

\* ------------------------------------------------------------ execute_query
\* How the statements of the try block (cursor, execute, fetchall or
\* commit) end at one attempt.
TryEnds == {"ok", "OperationalError", "Exception"}

\* What the call gives its caller: "rows" (fetchall's list), "rowcount",
\* "None", or "raised" when an exception leaves the function.
Returns(end, what) == [end EXCEPT !.returned = what]

\* database.py 322-366: the retry loop from attempt on.
RECURSIVE execute_query(_, _, _)
execute_query(q, attempt, end) ==
    IF ~(attempt < q.retry_count) THEN Returns(end, "None")
    ELSE LET e1 == [end EXCEPT !.attempts = @ + 1] IN
         IF ~q.conns[attempt + 1]
         THEN IF attempt < q.retry_count - 1
              THEN execute_query(q, attempt + 1, e1)
              ELSE Returns(e1, "None")
         ELSE LET e2 == [e1 EXCEPT !.executes = @ + 1] IN
              IF q.tries[attempt + 1] = "ok"
              THEN IF q.fetch THEN Returns(e2, "rows")
                   ELSE Returns([e2 EXCEPT !.commits = @ + 1], "rowcount")
              ELSE IF ~q.rollback_ok THEN Returns(e2, "raised")
              ELSE IF q.tries[attempt + 1] = "OperationalError"
                      /\ attempt < q.retry_count - 1
                   THEN execute_query(q, attempt + 1, e2)
                   ELSE Returns(e2, "None")

InitQuery ==
    /\ version \in Versions
    /\ pc = "idle"
    /\ run = NoRun
    /\ loc = NoLoc
    /\ predictions = {}
    /\ match_stats = {}
    /\ apiCall = ApiIdle
    /\ teamCall = TeamIdle
    /\ sched = SchedIdle
    /\ pool = PoolIdle
    /\ tg = TgIdle
    /\ ai = AiIdle
    /\ ds = DsIdle
    /\ cursorCall = CursorIdle
    /\ queryCall \in [fetch : BOOLEAN, retry_count : 0 .. MaxDbRetries,
                       conns : [1 .. MaxDbRetries -> BOOLEAN],
                       tries : [1 .. MaxDbRetries -> TryEnds],
                       rollback_ok : BOOLEAN, done : {FALSE}, end : {NoReturn}]
    /\ filterCall = FilterIdle
    /\ chk = CheckIdle

\* execute_query(query, params, fetch, retry_count) is called.
CallExecuteQuery ==
    /\ ~queryCall.done
    /\ queryCall' = [queryCall EXCEPT !.done = TRUE,
                                      !.end = execute_query(queryCall, 0, NoReturn)]
    /\ UNCHANGED <<pipelineVars, sched, pool, tg, ai, ds, cursorCall, filterCall, chk>>

NextQuery == CallExecuteQuery

SpecQuery == InitQuery /\ [][NextQuery]_vars

\* ------------------------------------ the filters of send_daily_predictions
MIN_SEND_ODDS == 160    \* minimum odds threshold for sending to Telegram

\* The texts the AI may give as recommended_bet, and the keywords of the
\* filter each of them contains (`'Home Win' in rec`, ...).
RecommendedBets == {"Home Win @2.10", "Draw", "Over 2.5 Goals", "BTTS Yes",
                    "Both teams to score"}
Mentions(rec, keyword) ==
    CASE rec = "Home Win @2.10" -> keyword = "Home Win"
      [] rec = "Draw" -> keyword = "Draw"
      [] rec = "Over 2.5 Goals" -> keyword = "Over"
      [] rec = "BTTS Yes" -> keyword = "BTTS"
      [] OTHER -> FALSE

\* The odds columns the sample rows do not vary.
FixedOdds == [away_odds |-> 300, draw_odds |-> 320, under_2_5_odds |-> 150,
              btts_yes_odds |-> 180]

\* main.py 399-416: the WHERE clause of the query.
query_selects(m, min_confidence) ==
    /\ ~m.telegram_sent
    /\ m.in_window
    /\ m.has_odds
    /\ m.ai_confidence # None
    /\ m.ai_confidence >= min_confidence

\* main.py 395-396, 427: risk_levels.get(..., default)
risk_value(level, default) ==
    CASE level = "LOW" -> 1 [] level = "MEDIUM" -> 2 [] level = "HIGH" -> 3
      [] OTHER -> default
risk_ok(m, max_risk) == risk_value(m.risk_level, 3) <= risk_value(max_risk, 1)

\* main.py 428: (m.get('expected_value') or 0) > 0
ev_ok(m) == (IF m.expected_value = None THEN 0 ELSE m.expected_value) > 0

\* main.py 429-441: the odds the filter compares with MIN_SEND_ODDS.
filter_odds(m) ==
    LET rec == m.recommended_bet
        pred == m.ai_prediction
    IN  IF Mentions(rec, "Home Win") \/ pred = "HOME_WIN" THEN m.home_odds
        ELSE IF Mentions(rec, "Away Win") \/ pred = "AWAY_WIN" THEN FixedOdds.away_odds
        ELSE IF Mentions(rec, "Draw") \/ pred = "DRAW" THEN FixedOdds.draw_odds
        ELSE IF Mentions(rec, "Over") \/ pred = "OVER_2.5" THEN m.over_2_5_odds
        ELSE IF Mentions(rec, "Under") \/ pred = "UNDER_2.5" THEN FixedOdds.under_2_5_odds
        ELSE IF Mentions(rec, "BTTS") THEN FixedOdds.btts_yes_odds
        ELSE 0

\* main.py 443: odds and odds >= MIN_SEND_ODDS
odds_ok(m) ==
    LET odds == filter_odds(m)
    IN  odds # None /\ odds # 0 /\ odds >= MIN_SEND_ODDS

\* main.py 445-446: the row is appended to filtered_matches.
passes_filters(m, min_confidence, max_risk) ==
    /\ query_selects(m, min_confidence)
    /\ risk_ok(m, max_risk)
    /\ ev_ok(m)
    /\ odds_ok(m)

InitFilter ==
    /\ version = "main"
    /\ pc = "idle"
    /\ run = NoRun
    /\ loc = NoLoc
    /\ predictions = {}
    /\ match_stats = {}
    /\ apiCall = ApiIdle
    /\ teamCall = TeamIdle
    /\ sched = SchedIdle
    /\ pool = PoolIdle
    /\ tg = TgIdle
    /\ ai = AiIdle
    /\ ds = DsIdle
    /\ cursorCall = CursorIdle
    /\ queryCall = QueryIdle
    /\ filterCall \in
          [row : [telegram_sent : BOOLEAN, in_window : BOOLEAN, has_odds : BOOLEAN,
                  ai_confidence : {None, 65, 75},
                  risk_level : {"LOW", "MEDIUM", "HIGH"},
                  expected_value : {None, 0, 115},
                  recommended_bet : RecommendedBets,
                  ai_prediction : valid_predictions,
                  home_odds : {None, 150, 210},
                  over_2_5_odds : {130, 185}],
           min_confidence : {70}, max_risk : {"LOW", "MEDIUM", "HIGH"},
           done : {FALSE}, dispatched : {FALSE}]
    /\ chk = CheckIdle

\* send_daily_predictions(min_confidence, max_risk) runs over the row; a
\* row in filtered_matches has its message handed to send_telegram_message.
FilterAndDispatch ==
    /\ ~filterCall.done
    /\ filterCall' = [filterCall EXCEPT !.done = TRUE,
                         !.dispatched = passes_filters(filterCall.row,
                                                       filterCall.min_confidence,
                                                       filterCall.max_risk)]
    /\ UNCHANGED <<pipelineVars, sched, pool, tg, ai, ds, cursorCall, queryCall, chk>>

NextFilter == FilterAndDispatch

SpecFilter == InitFilter /\ [][NextFilter]_vars

\* ------------------------------------------------ check_and_update_results
\* What the provider answers for a fixture: no data, a status other than
\* FT, or FT with a score; or the handling raises (the request, the JSON,
\* a score that is null, or the UPDATE block).
FinalScores == {"2-1", "1-1"}
CheckEnds == {"no_data", "not_FT", "raises"} \cup FinalScores

\* ORDER BY match_date DESC over the rows WHERE result IS NULL.
RECURSIVE ResultIsNull(_, _)
ResultIsNull(result, m) ==
    IF m > MaxCheckMatches THEN <<>>
    ELSE (IF result[m] = NullText THEN <<m>> ELSE <<>>) \o ResultIsNull(result, m + 1)

InitCheck ==
    /\ version = "main"
    /\ pc = "idle"
    /\ run = NoRun
    /\ loc = NoLoc
    /\ predictions = {}
    /\ match_stats = {}
    /\ apiCall = ApiIdle
    /\ teamCall = TeamIdle
    /\ sched = SchedIdle
    /\ pool = PoolIdle
    /\ tg = TgIdle
    /\ ai = AiIdle
    /\ ds = DsIdle
    /\ cursorCall = CursorIdle
    /\ queryCall = QueryIdle
    /\ filterCall = FilterIdle
    /\ chk = CheckIdle

\* main.py 719-725, 830-836, 529-543: the check_results job on the
\* scheduler's thread or GET /check on the server's calls the function,
\* which selects the rows without a result and returns 0 when there are none.
StartCheck(t) ==
    /\ chk.thr[t].pc = "idle"
    /\ chk.thr[t].runs < MaxCheckRuns
    /\ LET matches == ResultIsNull(chk.result, 1)
       IN  chk' = [chk EXCEPT !.thr[t] =
                     [pc |-> IF matches = <<>> THEN "idle" ELSE "loop",
                      matches |-> matches, i |-> 1, runs |-> @.runs + 1]]
    /\ UNCHANGED <<pipelineVars, sched, pool, tg, ai, ds, cursorCall, queryCall,
                   filterCall>>

\* main.py 548-631: one pass of the loop.  A fixture the provider reports
\* FT has its outcome written by UPDATE ... WHERE match_id = %s; no data or
\* another status goes on to the next match, and so does an exception,
\* which the except clause of the loop body catches.
HandleMatch(t) ==
    /\ chk.thr[t].pc = "loop"
    /\ LET me == chk.thr[t]
           match == me.matches[me.i]
           last == me.i = Len(me.matches)
       IN  \E end \in CheckEnds :
              chk' = [chk EXCEPT
                        !.result[match] = IF end \in FinalScores THEN end ELSE @,
                        !.last = [thread |-> t, match |-> match,
                                  status |-> IF end \in FinalScores THEN "FT" ELSE end],
                        !.thr[t].i = IF last THEN @ ELSE @ + 1,
                        !.thr[t].pc = IF last THEN "idle" ELSE "loop"]
    /\ UNCHANGED <<pipelineVars, sched, pool, tg, ai, ds, cursorCall, queryCall,
                   filterCall>>

NextCheck == \E t \in Threads : StartCheck(t) \/ HandleMatch(t)

SpecCheck == InitCheck /\ [][NextCheck]_vars

\* ============================================================== properties
IsPrefix(s, t) == Len(s) <= Len(t) /\ \A i \in 1 .. Len(s) : s[i] = t[i]

\* The quote get_odds is holding was built from one source and tagged
\* with it: it is the last bookmaker asked, and every price is that
\* bookmaker's.
QuoteOfLastAsked(l) ==
    /\ l.odds_done
    /\ l.queried # <<>>
    /\ l.odds.bookmaker_id = l.queried[Len(l.queried)]
    /\ l.odds.odds_source = bookmaker_names(l.odds.bookmaker_id)
    /\ \A f \in PriceFields :
          l.odds[f] # None => SourceOf(l.odds[f]) = l.odds.bookmaker_id
    /\ \A f \in X12Fields : Truthy(l.odds[f])

\* C1 as stated: get_odds asks the sources in BOOKMAKERS order, never
\* passes over a source whose home, draw and away prices are all present,
\* asks no source after the one it accepts, and returns that source's
\* quote, unmerged and tagged with its identity.
C1_FirstCompleteSourceWins ==
    version = "main" =>
       /\ IsPrefix(loc.queried, BOOKMAKERS)
       /\ ~loc.skipped_complete
       /\ (pc = "odds" => ~loc.odds_done /\ Len(loc.queried) = loc.bk - 1)
       /\ (loc.odds.found => pc = "save" /\ QuoteOfLastAsked(loc))

\* C1 amended: get_odds asks the sources in BOOKMAKERS order, never passes
\* over a source whose payload parses without error and lists non-zero
\* home, draw and away prices, asks no source after the one it accepts,
\* and returns that source's quote, unmerged and tagged with its identity.
C1_FirstUsableSourceWins ==
    version = "main" =>
       /\ IsPrefix(loc.queried, BOOKMAKERS)
       /\ ~loc.skipped_clean
       /\ (pc = "odds" => ~loc.odds_done /\ Len(loc.queried) = loc.bk - 1)
       /\ (loc.odds.found => pc = "save" /\ QuoteOfLastAsked(loc))

\* Sources 1..3 were passed over and source 4 (Bwin) was selected.
C1_Witness ==
    /\ version = "main"
    /\ pc = "save"
    /\ loc.odds.found
    /\ loc.queried = <<8, 11, 5, 6>>
    /\ loc.odds.odds_source = "Bwin"

\* C2: in main.py's collector a quote the resolver accepts has non-null
\* home, draw and away prices, and when the resolver returned no odds the
\* predictions row this call inserts has every price field null.
C2_AcceptedHas1X2_NoOddsAllNull ==
    version = "main" =>
       /\ (loc.odds.found => \A f \in X12Fields : loc.odds[f] # None)
       /\ (loc.ret = "true" /\ loc.odds_done /\ ~loc.got_odds /\ loc.inserted
             => \A f \in PriceFields :
                   RowOf(predictions, loc.fixture_id)[f] = None)

\* A quote was accepted from a source that offered the 1X2 market only.
C2_Witness ==
    /\ version = "main"
    /\ pc = "save"
    /\ loc.odds.found
    /\ loc.odds.home_odds # None /\ loc.odds.draw_odds # None
    /\ loc.odds.away_odds # None /\ loc.odds.over_2_5_odds = None

AllPopulated(r) == \A f \in PriceFields : r[f] # None
AllNull(r) == \A f \in PriceFields : r[f] = None

UniqueMatchId(rows) ==
    \A r1, r2 \in rows : r1.match_id = r2.match_id => r1 = r2

\* C4: however often the fixtures are collected, predictions and
\* match_stats hold at most one row per match_id, and no step changes or
\* removes a row that is already there.
C4_IdempotentNoClobber ==
    /\ [](UniqueMatchId(predictions) /\ UniqueMatchId(match_stats))
    /\ [][predictions \subseteq predictions' /\ match_stats \subseteq match_stats']_vars

\* collect_match_data returned True for a fixture whose row already existed.
C4_Witness ==
    /\ loc.ret = "true"
    /\ ~loc.inserted
    /\ HasRow(predictions, loc.fixture_id)
    /\ HasRow(match_stats, loc.fixture_id)

\* C5: no failure makes collect_today_matches raise; a run ends only by
\* returning its count after the last league.
C5_NoFailureAbortsRun ==
    /\ pc # "raised"
    /\ (pc = "done" => run.li = NumLeagues + 1)

\* The outcomes with every errors body replaced by a transport failure.
AsTransportFailures(outcomes) ==
    [i \in DOMAIN outcomes |->
        IF outcomes[i] = "errors" THEN "exception" ELSE outcomes[i]]

\* C6: a call of api_request makes the same requests and sleeps and hands
\* back data or None exactly as it would had every HTTP 200 body with
\* errors been a transport failure, and what it hands back as data is
\* never a body with errors.
C6_ErrorsBodyIsAFailedAttempt ==
    apiCall.done =>
       LET r == ApiRequest(version, AsTransportFailures(apiCall.outcomes),
                           apiCall.retry_count)
       IN  /\ r.trace = apiCall.trace
           /\ r.data.ok = apiCall.data.ok
           /\ (apiCall.data.ok => apiCall.data.from = "ok")

\* A first attempt got a body with errors and the request was retried.
C6_Witness ==
    /\ version = "main"
    /\ apiCall.done
    /\ apiCall.outcomes[1] = "errors"
    /\ Requests(apiCall.trace) = 2
    /\ Sleeps(apiCall.trace) = 1

\* The attempts of a call, in order: i-th request at trace[2i-1], one
\* sleep(2) between two requests and none after the last.
Alternates(trace) ==
    \A i \in DOMAIN trace :
       trace[i] = IF i % 2 = 1 THEN "request" ELSE "sleep2"
FirstOk(outcomes, budget) ==
    IF \E i \in 1 .. budget : outcomes[i] = "ok"
    THEN CHOOSE i \in 1 .. budget :
            outcomes[i] = "ok" /\ \A j \in 1 .. i - 1 : outcomes[j] # "ok"
    ELSE 0

C8_NoUsableMatchGivesSentinels ==
    (~teamCall.ok \/ UsableCount(teamCall.response) = 0) =>
       /\ (teamCall.form_done => teamCall.form = NA)
       /\ (teamCall.stats_done =>
              teamCall.stats.goals_avg = 0 /\ teamCall.stats.conceded_avg = 0)

\* Both calculators returned for a history of malformed matches only, one
\* of them with a goals-for but no goals-against.
C8_Witness ==
    /\ teamCall.form_done /\ teamCall.stats_done
    /\ teamCall.ok
    /\ Len(teamCall.response) = 2
    /\ UsableCount(teamCall.response) = 0
    /\ \E i \in DOMAIN teamCall.response :
          /\ HasKeys(teamCall.response[i])
          /\ goals_for(teamCall.response[i], teamCall.team_id) = 2

NoOddsRow(r) ==
    ~r.has_odds /\ r.odds_source = NoSource /\ AllNull(r)

Exhausted == version = "main" /\ pc = "save" /\ ~loc.odds.found

\* C10 as stated: the source list has six entries, and when no source
\* yields complete 1X2 prices get_odds has asked each of them once, in
\* order, and returns None.
C10_SixSourcesExhausted ==
    Exhausted => /\ loc.odds_done /\ loc.odds = NoOdds
                 /\ Len(loc.queried) = 6
                 /\ IsPrefix(loc.queried, BOOKMAKERS)

\* C10 amended: the source list is a primary source followed by six
\* alternates, seven distinct sources in all, and when no source yields
\* complete 1X2 prices get_odds has asked each of the seven once, in
\* order, and returns None.
C10_SevenSourcesExhausted ==
    /\ Len(BOOKMAKERS) = 7
    /\ Cardinality({BOOKMAKERS[i] : i \in DOMAIN BOOKMAKERS}) = 7
    /\ (Exhausted => loc.odds_done /\ loc.odds = NoOdds
                     /\ loc.queried = BOOKMAKERS)

\* get_odds has returned None after asking all seven sources.
C10_Witness ==
    /\ Exhausted
    /\ loc.odds_done
    /\ Len(loc.queried) = 7
    /\ loc.queried[7] = 3

\* C11: any two requests started through api_request start at least
\* MIN_REQUEST_INTERVAL apart, whichever thread and caller issued them.
C11_RequestsSpacedByInterval ==
    \A r1, r2 \in sched.starts :
       r1 # r2 => \/ r1.at - r2.at >= MIN_REQUEST_INTERVAL
                  \/ r2.at - r1.at >= MIN_REQUEST_INTERVAL

Running == {t \in Threads : sched.thr[t].pc # "idle"}

\* C12: at no time are two invocations of collect_today_matches in progress.
C12_OneRunAtATime == Cardinality(Running) <= 1

\* C13: after any sequence of collect_match_data, collect_today_matches
\* and create_tables, on success and on every failure path, no connection
\* remains checked out of the pool.
C13_NoConnectionLeftCheckedOut == pool.used = 0

\* C14: a row has telegram_sent = TRUE only if send_telegram_message has
\* returned success for that match before, and no step marks a match whose
\* send it has just seen fail: such a match stays unsent and selectable.
C14_MarkedOnlyAfterSuccessfulSend ==
    /\ [](\A m \in SendIds : tg.telegram_sent[m] => m \in tg.delivered)
    /\ [][(tg.pc = "mark" /\ ~tg.success) =>
             tg'.telegram_sent = tg.telegram_sent]_vars

\* A run has ended in which one match was sent and marked and the send of
\* the other failed, leaving it unmarked.
C14_Witness ==
    /\ tg.pc = "done"
    /\ tg.telegram_sent[1] /\ 1 \in tg.delivered
    /\ ~tg.telegram_sent[2] /\ 2 \in tg.failed /\ 2 \notin tg.delivered

\* C15: a step of analyze_and_update_predictions changes no row but the
\* match it is at, which lacked analysis, and only with a non-error
\* result; after an error result the rows are as before and the loop goes
\* on with the next match; no row ever holds an error result, and
\* analyzed_count is the number of rows the run has updated.
C15_OnlyUnanalysedRowsNonErrorResults ==
    /\ [](/\ \A m \in AiIds : ai.rows[m].ai_prediction \notin ErrorPredictions
          /\ ai.analyzed_count = Cardinality(ai.written))
    /\ [][ai'.rows # ai.rows =>
             /\ ai.pc = "update"
             /\ ai.ai_result \notin ErrorPredictions
             /\ ai.rows[ai.matches[ai.idx]].ai_confidence = None
             /\ \A m \in AiIds :
                   m # ai.matches[ai.idx] => ai'.rows[m] = ai.rows[m]]_vars
    /\ [][(ai.pc = "update" /\ ai.ai_result \in ErrorPredictions) =>
             /\ ai'.rows = ai.rows
             /\ ai'.analyzed_count = ai.analyzed_count
             /\ ai'.pc = IF ai.idx < Len(ai.matches) THEN "predict" ELSE "done"]_vars

\* A run has ended that got an error result for its first match and
\* updated its second: one row written, count 1.
C15_Witness ==
    /\ ai.pc = "done"
    /\ Len(ai.matches) = 2
    /\ ai.rows[ai.matches[1]].ai_confidence = None
    /\ ai.rows[ai.matches[2]].ai_confidence # None
    /\ ai.analyzed_count = 1 /\ ai.error_count = 1

\* The attempts a call makes, in order: a request, then, before the next
\* request, a sleep of 2^attempt seconds (1 after the first, 2 after the
\* second), and no sleep after the last request.
Backoffs(trace) ==
    \A i \in DOMAIN trace :
       trace[i] = IF i % 2 = 1 THEN Post ELSE Sleep(2 ^ ((i \div 2) - 1))
Posts(trace) == Cardinality({i \in DOMAIN trace : trace[i].op = "request"})

\* The first of the attempts 1..n whose response satisfies Test (0: none).
FirstThat(Test(_), responses, n) ==
    IF \E i \in 1 .. n : Test(responses[i])
    THEN CHOOSE i \in 1 .. n :
            Test(responses[i]) /\ \A j \in 1 .. i - 1 : ~Test(responses[j])
    ELSE 0

Usable16(response) ==
    validate_deepseek_response(response) /\ builds_result(response.data)

\* What a call with the key set and max_retries >= 1 does when the first
\* response it stops at is `first` (0: it stops at none).
DsContract(first) ==
    (ds.done /\ ds.has_key /\ ds.max_retries >= 1) =>
       /\ Posts(ds.trace) <= ds.max_retries
       /\ Posts(ds.trace) = IF first = 0 THEN ds.max_retries ELSE first
       /\ Backoffs(ds.trace)
       /\ ds.trace[Len(ds.trace)] = Post
       /\ (first # 0 =>
              ds.result.prediction = ds.responses[first].data.prediction)
       /\ (first = 0 =>
              /\ ds.result.prediction \in {"ERROR", "PARSE_ERROR"}
              /\ ds.result.confidence = 0
              /\ ds.result.recommended_bet = "SKIP")

\* C16 as stated: the call stops at the first response that parses and
\* validates.
C16_StopsAtFirstValidated ==
    DsContract(FirstThat(validate_deepseek_response, ds.responses, ds.max_retries))

\* C16 amended: the call stops at the first response that parses,
\* validates and whose expected_value is numeric and reasoning a string;
\* any other response is a failed attempt.
C16_StopsAtFirstUsable ==
    DsContract(FirstThat(Usable16, ds.responses, ds.max_retries))

\* All three attempts of a call failed, the last on a validated answer
\* whose expected_value is not a number, and ERROR came back.
C16_Witness ==
    /\ ds.done /\ ds.has_key /\ ds.max_retries = 3
    /\ ds.responses[1].kind = "not_json"
    /\ ds.responses[2].kind = "request_error"
    /\ validate_deepseek_response(ds.responses[3])
    /\ ~builds_result(ds.responses[3].data)
    /\ ds.trace = <<Post, Sleep(1), Post, Sleep(2), Post>>
    /\ ds.result = Sentinel("ERROR")

\* C17: a with-block whose body ran commits once if the body completed
\* and commit is set, and not at all otherwise; when the body raised
\* (OperationalError included) the transaction is rolled back, nothing is
\* committed, the body has run once only, and it is the body's own
\* exception that propagates.
C17_CommitOnceOrBodyExceptionPropagates ==
    (cursorCall.done /\ cursorCall.end.body_runs > 0 /\ cursorCall.rollback_ok) =>
       /\ cursorCall.end.body_runs = 1
       /\ (cursorCall.body = "completes" /\ cursorCall.commit
             /\ cursorCall.commit_outcome = "ok"
             => cursorCall.end.commits = 1 /\ cursorCall.end.raised = "none")
       /\ (cursorCall.body = "completes" /\ ~cursorCall.commit
             => cursorCall.end.commits = 0 /\ cursorCall.end.raised = "none")
       /\ (cursorCall.body # "completes" =>
              /\ cursorCall.end.rollbacks >= 1
              /\ cursorCall.end.commits = 0
              /\ cursorCall.end.raised = "body")

\* The attempts of a call that were made: the first n of the call's inputs.
FailedBefore(q, n) ==
    \A i \in 1 .. n - 1 : ~q.conns[i] \/ q.tries[i] = "OperationalError"

\* C18: execute_query never raises; it makes at most retry_count attempts,
\* going on to another attempt only after no connection or an
\* OperationalError; it returns the rows (fetch) or the row count after a
\* commit from the first attempt that works, and None when an attempt fails
\* with another error or when the attempts are used up.
C18_NeverRaisesReturnsRowsCountOrNone ==
    queryCall.done =>
       LET q == queryCall
           n == q.end.attempts
       IN  /\ q.end.returned # "raised"
           /\ n <= q.retry_count
           /\ FailedBefore(q, n)
           /\ (q.end.returned = "rows" =>
                  q.fetch /\ q.conns[n] /\ q.tries[n] = "ok")
           /\ (q.end.returned = "rowcount" =>
                  ~q.fetch /\ q.conns[n] /\ q.tries[n] = "ok" /\ q.end.commits = 1)
           /\ (q.end.returned = "None" =>
                  \/ n = q.retry_count /\ (n > 0 => ~(q.conns[n] /\ q.tries[n] = "ok"))
                  \/ q.conns[n] /\ q.tries[n] = "Exception")

\* The team's own score and its opponent's in a match, and the letter the
\* result earns the team.
OwnScore(match, team_id) ==
    IF match.teams.home.id = team_id THEN match.goals.home ELSE match.goals.away
OtherScore(match, team_id) ==
    IF match.teams.home.id = team_id THEN match.goals.away ELSE match.goals.home
Letter(match, team_id) ==
    IF OwnScore(match, team_id) > OtherScore(match, team_id) THEN "W"
    ELSE IF OwnScore(match, team_id) = OtherScore(match, team_id) THEN "D"
    ELSE "L"

\* The letters of the usable matches of a history, in the history's order.
LettersOf(response, team_id) ==
    LET usable == SelectSeq(response, Usable)
    IN  [i \in 1 .. Len(usable) |-> Letter(usable[i], team_id)]

\* C19 as stated: the form is the letters of the usable matches from the
\* team's own side in the provider's order, its length is the number of
\* usable matches, and that is at most 5.
C19_FormIsLettersOfUsableAtMostFive ==
    (teamCall.form_done /\ teamCall.ok) =>
       /\ teamCall.form = LettersOf(teamCall.response, teamCall.team_id)
       /\ Len(teamCall.form) = UsableCount(teamCall.response)
       /\ Len(teamCall.form) <= 5

\* C19: with at least one usable match the form is the letters of the
\* usable matches from the team's own side in the provider's order, so its
\* length is the number of usable matches, which is at most 5 when the
\* provider sent no more than the five matches it was asked for; with no
\* usable match the form is "N/A".
C19_FormIsLettersOfUsableOrNA ==
    (teamCall.form_done /\ teamCall.ok) =>
       IF UsableCount(teamCall.response) = 0 THEN teamCall.form = NA
       ELSE /\ teamCall.form = LettersOf(teamCall.response, teamCall.team_id)
            /\ Len(teamCall.form) = UsableCount(teamCall.response)
            /\ (Len(teamCall.response) <= FORM_LAST => Len(teamCall.form) <= 5)

\* The away team's form over five matches: a loss, a skipped match, a
\* draw, and two more losses.
C19_Witness ==
    /\ teamCall.form_done /\ teamCall.ok
    /\ teamCall.team_id = 2
    /\ teamCall.response = <<Match(1, 2, 1), Match(1, None, 1), Match(1, 1, 1),
                             Match(1, 2, 1), Match(1, 2, 1)>>
    /\ teamCall.form = <<"L", "D", "L", "L">>

\* The sum of f over the matches of a history.
RECURSIVE SumOver(_, _, _)
SumOver(F(_, _), matches, team_id) ==
    IF matches = <<>> THEN 0
    ELSE F(Head(matches), team_id) + SumOver(F, Tail(matches), team_id)

\* C20: goals_avg is the sum of the team's own scores over the counted
\* matches divided by their number, conceded_avg likewise for the
\* opponents' scores, each rounded to two decimals; the counted matches are
\* those with both scores usable, and a skipped match adds to neither total
\* nor to the count.
C20_AveragesOverCountedMatchesOnly ==
    (teamCall.stats_done /\ teamCall.ok) =>
       LET counted == SelectSeq(teamCall.response, Usable)
       IN  IF counted = <<>> THEN teamCall.stats = ZeroStats
           ELSE /\ teamCall.stats.goals_avg =
                      Round2(SumOver(OwnScore, counted, teamCall.team_id), Len(counted))
                /\ teamCall.stats.conceded_avg =
                      Round2(SumOver(OtherScore, counted, teamCall.team_id), Len(counted))

\* A result that is none of the sentinels deepseek_predict makes up itself.
IsPrediction(result) ==
    result.prediction \notin {"none", "NO_API_KEY", "ERROR", "PARSE_ERROR"}

\* C21: a result that is not a sentinel has a prediction among the six
\* outcomes, a confidence in 0..100 and a risk level LOW, MEDIUM or HIGH,
\* and is the content of one of the responses received, which carries all
\* six required fields.
C21_PredictionsComeFromValidResponses ==
    (ds.done /\ IsPrediction(ds.result)) =>
       /\ ds.result.prediction \in {"HOME_WIN", "DRAW", "AWAY_WIN", "OVER_2.5",
                                     "UNDER_2.5", "BTTS_YES"}
       /\ 0 <= ds.result.confidence /\ ds.result.confidence <= 100
       /\ ds.result.risk_level \in {"LOW", "MEDIUM", "HIGH"}
       /\ \E i \in 1 .. Posts(ds.trace) :
             /\ ds.responses[i].kind = "json"
             /\ {"prediction", "confidence", "reasoning", "recommended_bet",
                  "risk_level", "expected_value"} \subseteq DOMAIN ds.responses[i].data
             /\ ds.result.prediction = ds.responses[i].data.prediction
             /\ ds.result.confidence = ds.responses[i].data.confidence
             /\ ds.result.risk_level = ds.responses[i].data.risk_level

\* A prediction returned at the third attempt, after an answer with risk
\* level EXTREME and one lacking its reasoning were turned down.
C21_Witness ==
    /\ ds.done /\ ds.has_key /\ ds.max_retries = 3
    /\ ds.responses[1] = [kind |-> "json", data |-> [GoodData EXCEPT !.risk_level = "EXTREME"]]
    /\ ds.responses[2] = [kind |-> "json", data |-> NoReasoningData]
    /\ ds.responses[3] = [kind |-> "json", data |-> GoodData]
    /\ ds.result.prediction = "HOME_WIN"
    /\ Posts(ds.trace) = 3

\* The odds of the market a recommended bet names (0: it names none).
OddsOfRecommendedBet(m) ==
    CASE m.recommended_bet = "Home Win @2.10" -> m.home_odds
      [] m.recommended_bet = "Draw" -> FixedOdds.draw_odds
      [] m.recommended_bet = "Over 2.5 Goals" -> m.over_2_5_odds
      [] m.recommended_bet \in {"BTTS Yes", "Both teams to score"} -> FixedOdds.btts_yes_odds
      [] OTHER -> 0
RiskRank(level) == CASE level = "LOW" -> 1 [] level = "MEDIUM" -> 2 [] OTHER -> 3

\* C22: a dispatched row had telegram_sent FALSE, an ai_confidence of at
\* least min_confidence, a risk level no higher than max_risk, a positive
\* expected_value, and odds of at least 1.6 in the market of its
\* recommended bet.
C22_DispatchedRowsPassEveryFilter ==
    filterCall.dispatched =>
       LET m == filterCall.row
       IN  /\ ~m.telegram_sent
           /\ m.ai_confidence # None /\ m.ai_confidence >= filterCall.min_confidence
           /\ RiskRank(m.risk_level) <= RiskRank(filterCall.max_risk)
           /\ m.expected_value # None /\ m.expected_value > 0
           /\ OddsOfRecommendedBet(m) # None /\ OddsOfRecommendedBet(m) >= 160

\* WHERE ... has_odds = TRUE AND home_odds IS NOT NULL (main.py 255-256)
Analysable(r) == r.has_odds /\ r.home_odds # None

\* C23: on every predictions row collection wrote has_odds is TRUE exactly
\* when the 1X2 prices are non-null, so that every collected row with odds
\* meets the selection condition of the analysis stage.
C23_HasOddsIffPricesPresent ==
    \A r \in predictions :
       /\ r.has_odds <=>
             (r.home_odds # None /\ r.draw_odds # None /\ r.away_odds # None)
       /\ (r.home_odds # None => Analysable(r))

\* C24: an outcome is written only to a row whose result was null and
\* whose fixture the provider reports FT, so that a written outcome never
\* changes; a match whose handling raises keeps its row as it was, and the
\* run goes on to its next match.
C24_OutcomeWrittenOnceOnlyWhenFT ==
    [][/\ \A m \in CheckIds :
             chk'.result[m] # chk.result[m] =>
                /\ chk.result[m] = NullText
                /\ chk'.last = [thread |-> chk'.last.thread, match |-> m,
                                status |-> "FT"]
       /\ \A t \in Threads :
             (chk.thr[t].pc = "loop" /\ chk'.thr[t] # chk.thr[t]
                 /\ chk'.last.status = "raises") =>
                /\ chk'.result = chk.result
                /\ \/ chk'.thr[t].i = chk.thr[t].i + 1 /\ chk'.thr[t].pc = "loop"
                   \/ chk.thr[t].i = Len(chk.thr[t].matches)]_vars

\* C25: a match whose message has been delivered is never delivered again
\* by a later step of send_daily_predictions, whatever became of the
\* UPDATE that was to record the delivery.
C25_DeliveredAtMostOnce ==
    [][(tg.pc = "send" /\ tg'.success) =>
          tg.filtered_matches[tg.i] \notin tg.delivered]_vars

MatchIds(rows) == {r.match_id : r \in rows}

\* C26: the two tables hold rows for the same fixtures at all times: every
\* match_stats row has its predictions row, and no predictions row is
\* committed without the match_stats row of its fixture, failed inserts
\* and failed commits included.
C26_BothRowsOrNeither == MatchIds(predictions) = MatchIds(match_stats)

\* The save of a fixture with odds has just failed, and neither table holds
\* a row of the fixture.
C26_Witness ==
    /\ loc.db_failed /\ loc.ret = "false" /\ loc.got_odds
    /\ ~HasRow(predictions, loc.fixture_id)
    /\ ~HasRow(match_stats, loc.fixture_id)

\* The place of each step of collect_match_data in its order: fields,
\* forms, then statistics and odds (odds and statistics in
\* data_collector.py), then the write.
StepNo(v, step) ==
    CASE step = "collect" -> 0
      [] step = "form_home" -> 1
      [] step = "form_away" -> 2
      [] step = "stats_home" -> IF v = "main" THEN 3 ELSE 4
      [] step = "stats_away" -> IF v = "main" THEN 4 ELSE 5
      [] step = "odds" -> IF v = "main" THEN 5 ELSE 3
      [] step = "save" -> 6
      [] step = "check" -> 7
Steps == {"collect", "form_home", "form_away", "stats_home", "stats_away",
          "odds", "save", "check"}

\* C27: within one fixture the steps follow one another in their order,
\* none left out and none gone back to; the tables change only in the
\* write step, which comes after the forms, the statistics and the odds;
\* and for a fixture with a missing field collect_match_data returns False
\* with both tables unchanged.
C27_OneWayOrderWriteLast ==
    [][/\ (pc \in Steps /\ pc' \in Steps \ {"collect"}) =>
             \/ StepNo(version, pc') = StepNo(version, pc) + 1
             \/ pc = "odds" /\ pc' = "odds"
       /\ (predictions' # predictions \/ match_stats' # match_stats) =>
             pc = "save" /\ loc.odds_done
       /\ (pc = "collect" /\ ~FixtureOk(run.fixtures[run.fi])) =>
             /\ loc'.ret = "false"
             /\ predictions' = predictions /\ match_stats' = match_stats]_vars

\* collect_match_data has returned False for a fixture with missing fields,
\* after the fixture before it was written.
C27_Witness ==
    /\ loc.ret = "false" /\ loc.fixture_id = str(0)
    /\ HasRow(predictions, str(101)) /\ HasRow(match_stats, str(101))
====
